---- MODULE Spec2Model ----
(***************************************************************************)
(* Monalias: the public resolve handler, the identity watchdog and the     *)
(* per-IP rate limiter, as state machines over the instance_config row,    *)
(* the alias/account store and the wallet bridge.                          *)
(*                                                                         *)
(* A Go string is a sequence of characters.  The alphabet holds the        *)
(* separators "$", "+" and "\n" and a few tokens that stand for a run of   *)
(* ordinary characters ("ex", "EX", "a", ...).  sql.NullString and *string *)
(* are records [valid, s].                                                 *)
(***************************************************************************)
EXTENDS Integers, Sequences, FiniteSets, TLC

VARIABLES
    inst,       \* the single instance_config row (id = 1)
    aliases,    \* the aliases table: a set of rows
    accounts,   \* the accounts table: a set of rows
    cfg,        \* process configuration fixed at startup
    req,        \* resolve requests in the public listener
    ck,         \* running identity check cycles (timer and manual)
    sic,        \* a SetInstanceConfig call between its read and its upsert
    bridge,     \* the wallet bridge: which wallet is open
    ips,        \* IPRateLimiter.ips: ip -> entry (its limiter, lastSeen)
    heap,       \* the rate.Limiter objects that entries and requests point to
    now,        \* wall clock, in ticks
    log,        \* history: the admission attempts made on the limiter
    first,      \* history: alias id -> the address of its first signed answer
    era,        \* history: LOCKED has been written and OK not since
    wd,         \* the goroutine of Watchdog.Run: its place, ticker and context
    sg,         \* a signed answer on its way to a verifier
    adm         \* an admin mutation on aliases between its steps

vars == <<inst, aliases, accounts, cfg, req, ck, sic, bridge, ips, heap, now,
          log, first, era, wd, sg, adm>>

-----------------------------------------------------------------------------
(* sql.NullString / *string *)

Null == [valid |-> FALSE, s |-> <<>>]
Some(s) == [valid |-> TRUE, s |-> s]

(* sql.NullInt64 *)
NullInt == [valid |-> FALSE, n |-> 0]
SomeInt(n) == [valid |-> TRUE, n |-> n]

-----------------------------------------------------------------------------
(* strings *)

\* unicode simple case folding, on the alphabet of the model
Lower(c) == CASE c = "EX" -> "ex"
              [] c = "ZZ" -> "zz"
              [] OTHER -> c

EqualFold(s, t) ==
    /\ Len(s) = Len(t)
    /\ \A i \in 1..Len(s) : Lower(s[i]) = Lower(t[i])

\* strings.Index for a one-character needle, 1-based; 0 when absent
IndexOf(s, c) ==
    IF \E i \in 1..Len(s) : s[i] = c
    THEN CHOOSE i \in 1..Len(s) : s[i] = c /\ \A j \in 1..(i - 1) : s[j] # c
    ELSE 0

RECURSIVE Split(_, _)
Split(s, c) ==
    LET i == IndexOf(s, c)
    IN  IF i = 0 THEN <<s>>
        ELSE <<SubSeq(s, 1, i - 1)>> \o Split(SubSeq(s, i + 1, Len(s)), c)

RECURSIVE Join(_, _)
Join(parts, sep) ==
    IF Len(parts) = 0 THEN <<>>
    ELSE IF Len(parts) = 1 THEN parts[1]
    ELSE parts[1] \o sep \o Join(Tail(parts), sep)

-----------------------------------------------------------------------------
(* process configuration (config.Load) *)

Domain == <<"ex">>                  \* MONALIAS_DOMAIN
PublicBaseURL == "https://ex"       \* MONALIAS_PUBLIC_BASE_URL
SigningKeyID == <<"k1">>            \* MONALIAS_SIGNING_KEY_ID
SignerKey == "priv1"                \* the ed25519 private key
SignerPub == "pub1"                 \* its public key, base64
CatchAllAddr == <<"4Catch">>

-----------------------------------------------------------------------------
(* HTTP responses of the public listener *)

NoSig == [valid |-> FALSE, key |-> "", msg |-> <<>>]

\* resolveResponse.ExpiresAt, a *time.Time: nil, or an instant with its
\* seconds and the fraction of a second
NoExpiry == [valid |-> FALSE, sec |-> 0, nsec |-> 0]

NoResp ==
    [status |-> 0, error |-> "", reason |-> Null,
     retry |-> NullInt, retryHdr |-> Null,
     address |-> <<>>, network |-> <<>>,
     display |-> Null, alias |-> Null, kind |-> "",
     expires |-> NoExpiry,
     keyHdr |-> Null, sigHdr |-> NoSig]

writeJSONError(status, code) ==
    [NoResp EXCEPT !.status = status, !.error = code]

\* a variant that drops the reason
writeJSONErrorNoReason(status, code, reason) ==
    writeJSONError(status, code)

writeJSONErrorWithReason(status, code, reason) ==
    [writeJSONError(status, code) EXCEPT
        !.reason = IF reason.valid THEN reason ELSE Null]

\* a variant that compares what follows the last separator
acctMatchesDomainAnyDollar(acct, domain) ==
    LET parts == Split(acct, "$")
    IN  EqualFold(parts[Len(parts)], domain)

acctMatchesDomain(acct, domain) ==
    LET parts == Split(acct, "$")
    IN  IF Len(parts) # 2 THEN FALSE
        ELSE EqualFold(parts[2], domain)

\* a variant that keeps what follows the "+"
displayNameFromAcctWhole(acct) ==
    LET parts == Split(acct, "$")
    IN  parts[1]

displayNameFromAcct(acct) ==
    LET parts == Split(acct, "$")
        local == parts[1]
        idx   == IndexOf(local, "+")
    IN  IF Len(parts) = 0 THEN <<>>
        ELSE IF local = <<>> THEN <<>>
        ELSE IF idx >= 1 THEN SubSeq(local, 1, idx - 1)
        ELSE local

\* ed25519.Sign: an unforgeable signature is the pair of key and message
Sign(key, msg) == [valid |-> TRUE, key |-> key, msg |-> msg]

\* ed25519.Verify with the public key of the pair
Verify(pub, msg, sig) ==
    /\ sig.valid
    /\ pub = SignerPub /\ sig.key = SignerKey
    /\ sig.msg = msg

\* t.UTC().Format(time.RFC3339): the instant to the second
FormatRFC3339(t) == <<"T", <<"00", "01", "02">>[t.sec + 1], "Z">>

\* lines 232-235
expiresOf(resp) ==
    IF resp.expires.valid THEN FormatRFC3339(resp.expires) ELSE <<>>

\* a variant that leaves the network out of the signed string
canonicalStringNoNetwork(acct, address, network, expires, kid) ==
    Join(<<(<<"MONALIAS_RESOLVE">>), acct, address, expires, kid>>, <<"\n">>)

\* a variant that joins only the segments that are not empty
canonicalStringNoEmpty(acct, address, network, expires, kid) ==
    LET all == <<(<<"MONALIAS_RESOLVE">>), acct, address, network, expires, kid>>
    IN  Join(SelectSeq(all, LAMBDA x : x # <<>>), <<"\n">>)

\* lines 237-244
canonicalString(acct, address, network, expires, kid) ==
    Join(<<(<<"MONALIAS_RESOLVE">>), acct, address, network, expires, kid>>,
         <<"\n">>)

canonical(body, resp) ==
    canonicalString(body.acct, resp.address, body.network, expiresOf(resp),
                    SigningKeyID)

\* what a verifier holds: the acct it asked for, the address, network and
\* expiry of the body, the key id of the header, and the signature
Tuple(acct, address, network, expires, kid) ==
    [acct |-> acct, address |-> address, network |-> network,
     expires |-> expires, kid |-> kid]

NoSigned == [pc |-> "none", t |-> Tuple(<<>>, <<>>, <<>>, <<>>, <<>>),
             u |-> Tuple(<<>>, <<>>, <<>>, <<>>, <<>>), sig |-> NoSig,
             ok |-> FALSE]

canonicalOf(t) == canonicalString(t.acct, t.address, t.network, t.expires, t.kid)

\* tuples over a small alphabet, with empty fields and fields that hold a
\* newline
Tuples ==
    { Tuple(a, b, n, e, k) :
        a \in { <<"a", "$", "ex">>, <<"a">>, <<"a", "\n", "4A">> },
        b \in { <<"4A">>, <<>>, <<"4A", "\n", "mainnet">> },
        n \in { <<"mainnet">>, <<"stagenet">>, <<>> },
        e \in { <<>> } \cup
              { FormatRFC3339([valid |-> TRUE, sec |-> x, nsec |-> 0]) :
                  x \in {0, 1} },
        k \in { <<"k1">>, <<"k0">> } }

\* lines 237-247 for a tuple: the signature over its canonical string
SignTuple ==
    /\ sg.pc = "new"
    /\ sg' = [sg EXCEPT !.pc = "signed",
                        !.sig = Sign(SignerKey, canonicalOf(sg.t))]
    /\ UNCHANGED <<inst, aliases, accounts, cfg, req, ck, sic, bridge, ips, heap, now, log, first, era, wd, adm>>

\* on the way one field of the tuple is replaced, or none
Alter ==
    /\ sg.pc = "signed"
    /\ \E u \in Tuples :
         /\ Cardinality({ f \in DOMAIN u : u[f] # sg.t[f] }) <= 1
         /\ sg' = [sg EXCEPT !.pc = "sent", !.u = u]
    /\ UNCHANGED <<inst, aliases, accounts, cfg, req, ck, sic, bridge, ips, heap, now, log, first, era, wd, adm>>

\* the verifier builds the canonical string from what it received
VerifyTuple ==
    /\ sg.pc = "sent"
    /\ sg' = [sg EXCEPT !.pc = "verified",
                        !.ok = Verify(SignerPub, canonicalOf(sg.u), sg.sig)]
    /\ UNCHANGED <<inst, aliases, accounts, cfg, req, ck, sic, bridge, ips, heap, now, log, first, era, wd, adm>>

\* a variant that sets the signature header alone
signResolveResponseSigOnly(body, resp) ==
    [resp EXCEPT !.sigHdr = Sign(SignerKey, canonical(body, resp))]

\* lines 231-249: the two headers of a signed answer
signResolveResponse(body, resp) ==
    [resp EXCEPT !.keyHdr = Some(SigningKeyID),
                 !.sigHdr = Sign(SignerKey, canonical(body, resp))]

-----------------------------------------------------------------------------
(* rows of the store *)

NoAlias ==
    [id |-> 0, accountID |-> 0, fullAcct |-> <<>>, label |-> <<>>,
     mode |-> "", addr |-> Null, idx |-> NullInt]

AcctA == <<"a", "$", "ex">>
AcctAR == <<"a", "+", "r", "$", "ex">>
AcctTwo == <<"a", "+", "$", "$", "ex">>

\* the wallet bridge's answer to get_address: the subaddress of wallet w at
\* index i, when the wallet file behind the name is in its generation g
IdxStr(i) == <<"0", "1", "2", "3", "4">>[i + 1]
WalletAddr(w, i, g) == <<"8">> \o w \o <<IdxStr(i), IdxStr(g)>>

-----------------------------------------------------------------------------
(* PublicService.handleResolve *)

Malformed == [ok |-> FALSE, acct |-> <<>>, network |-> <<>>]

Accts ==
    { AcctA, AcctAR,
      <<"a", "$", "EX">>,              \* the domain in another case
      <<"a", "$", "zz">>,              \* another domain
      AcctTwo,                         \* two separators
      <<"ex">>,                        \* no separator
      <<>> }

Networks == { <<"mainnet">>, <<"stagenet">>, <<"testnet">>, <<>> }

Bodies == {Malformed} \cup [ok : {TRUE}, acct : Accts, network : Networks]

NoSeen == [status |-> "", reason |-> Null]

\* a request: the handler's position and locals (the row its lock check
\* read, the alias row it found, the wallet name), the response written, and
\* as history what it did, whether the alias had been answered before its
\* lookup and whether its lock check fell between a write of LOCKED and the
\* next write of OK
IdleReq ==
    [pc |-> "idle", method |-> "", body |-> Malformed, seen |-> NoSeen,
     alias |-> NoAlias, wallet |-> <<>>, resp |-> NoResp, did |-> {},
     late |-> FALSE, era |-> FALSE, ip |-> "", lim |-> 0]

\* a variant without the lock check
IsLockedNever(status) == FALSE

\* a variant that refuses on every status but OK
IsLockedUnlessOK(status) == status # "OK"

IsLocked(status) == status = "LOCKED"

\* lines 117-133: decode the body, then the input checks; NoResp when the
\* request passes them
validateRequest(body) ==
    IF ~body.ok THEN writeJSONError(400, "bad_request")
    ELSE IF body.acct = <<>> \/ body.network = <<>>
         THEN writeJSONError(400, "bad_request")
    ELSE IF body.network # <<"mainnet">> /\ body.network # <<"stagenet">>
         THEN writeJSONError(400, "invalid_network")
    ELSE IF ~acctMatchesDomain(body.acct, Domain)
         THEN writeJSONError(404, "alias_not_found")
    ELSE NoResp

\* lines 106-133 for the row GetInstanceConfig returned
LockThenValidate(row, body) ==
    IF IsLocked(row.status)
    THEN writeJSONErrorWithReason(503, "instance_locked", row.reason)
    ELSE validateRequest(body)

\* lines 151-162 and writeJSON(200)
resolveResponse(body, address, label, kind, display) ==
    [NoResp EXCEPT !.status = 200, !.address = address,
                   !.network = body.network, !.alias = label, !.kind = kind,
                   !.display = IF display # <<>> THEN Some(display) ELSE Null]

\* a variant that takes the display name from the acct
handleCatchAllAcctName(body, catchAll) ==
    IF catchAll = <<>> THEN writeJSONError(404, "alias_not_found")
    ELSE LET resp == resolveResponse(body, catchAll, Null, "CATCH_ALL",
                                     displayNameFromAcct(body.acct))
         IN  signResolveResponse(body, resp)

\* lines 209-229
handleCatchAll(body, catchAll) ==
    IF catchAll = <<>> THEN writeJSONError(404, "alias_not_found")
    ELSE LET resp == resolveResponse(body, catchAll, Null, "CATCH_ALL",
                                     Domain \o <<" (catch-all)">>)
         IN  signResolveResponse(body, resp)

\* a variant that hands out whatever the static column holds
resolveAliasUnchecked(alias, walletEnabled) ==
    IF alias.mode = "STATIC_ADDRESS"
    THEN [out |-> "ok", address |-> alias.addr.s]
    ELSE IF alias.mode = "DYNAMIC_SUBADDRESS"
    THEN IF alias.addr.valid /\ alias.addr.s # <<>>
         THEN [out |-> "ok", address |-> alias.addr.s]
         ELSE IF ~alias.idx.valid THEN [out |-> "err", address |-> <<>>]
         ELSE IF ~walletEnabled THEN [out |-> "err", address |-> <<>>]
         ELSE [out |-> "bridge", address |-> <<>>]
    ELSE [out |-> "err", address |-> <<>>]

\* a variant with the static test inverted
resolveAliasStaticInverted(alias, walletEnabled) ==
    IF alias.mode = "STATIC_ADDRESS"
    THEN IF alias.addr.valid /\ alias.addr.s # <<>>
         THEN [out |-> "err", address |-> <<>>]
         ELSE [out |-> "ok", address |-> alias.addr.s]
    ELSE [out |-> "err", address |-> <<>>]

\* lines 168-188: the part of resolveAlias before the first remote call.
\* out = "ok": an address is known; "err": an error; "bridge": go on to
\* GetAccount, open_wallet and get_address
resolveAlias(alias, walletEnabled) ==
    IF alias.mode = "STATIC_ADDRESS"
    THEN IF ~alias.addr.valid \/ alias.addr.s = <<>>
         THEN [out |-> "err", address |-> <<>>]
         ELSE [out |-> "ok", address |-> alias.addr.s]
    ELSE IF alias.mode = "DYNAMIC_SUBADDRESS"
    THEN IF alias.addr.valid /\ alias.addr.s # <<>>
         THEN [out |-> "ok", address |-> alias.addr.s]
         ELSE IF ~alias.idx.valid THEN [out |-> "err", address |-> <<>>]
         ELSE IF ~walletEnabled THEN [out |-> "err", address |-> <<>>]
         ELSE [out |-> "bridge", address |-> <<>>]
    ELSE [out |-> "err", address |-> <<>>]

\* lines 151-165: the signed 200 answer for an address resolved from an alias
respondAlias(body, alias, address) ==
    signResolveResponse(body,
        resolveResponse(body, address, Some(alias.label), "NORMAL",
                        displayNameFromAcct(body.acct)))

Finish(r, resp, ops) ==
    req' = [req EXCEPT ![r].pc = "done", ![r].resp = resp,
                       ![r].did = req[r].did \cup ops]

\* history: the address of the first signed answer for a dynamic alias
Remember(a, address) ==
    first' = IF a.mode = "DYNAMIC_SUBADDRESS" /\ ~first[a.id].valid
             THEN [first EXCEPT ![a.id] = Some(address)]
             ELSE first

\* a request with a body from B reaches the handler (Middleware's
\* next.ServeHTTP, or the mux when no limiter is set)
Arrive(r, B) ==
    /\ req[r].pc = "idle"
    /\ \E m \in {"POST", "GET"}, b \in B :
          /\ m = "GET" => b = Malformed
          /\ req' = [req EXCEPT ![r] = [IdleReq EXCEPT !.pc = "handler",
                                           !.method = m, !.body = b]]
    /\ UNCHANGED <<inst, aliases, accounts, cfg, ck, sic, bridge, ips, heap, now, log, first, era, wd, sg, adm>>

\* the columns of the row the handler uses
Seen(row) == [status |-> row.status, reason |-> row.reason]

\* lines 100-133
HandleResolve(r) ==
    /\ req[r].pc = "handler"
    /\ IF req[r].method # "POST"
       THEN Finish(r, [NoResp EXCEPT !.status = 405], {})
       ELSE \E dbok \in BOOLEAN :
              IF ~dbok
              THEN Finish(r, writeJSONError(500, "server_error"), {"dbfault"})
              ELSE LET resp == LockThenValidate(inst, req[r].body)
                   IN  IF resp # NoResp
                       THEN req' = [req EXCEPT ![r].pc = "done",
                                       ![r].resp = resp,
                                       ![r].seen = Seen(inst),
                                       ![r].era = era,
                                       ![r].did = {"status"}]
                       ELSE req' = [req EXCEPT ![r].pc = "lookup",
                                       ![r].seen = Seen(inst),
                                       ![r].era = era,
                                       ![r].did = {"status"}]
    /\ UNCHANGED <<inst, aliases, accounts, cfg, ck, sic, bridge, ips, heap, now, log, first, era, wd, sg, adm>>

\* lines 135-166 up to the first remote call of resolveAlias
Lookup(r) ==
    /\ req[r].pc = "lookup"
    /\ \E dbok \in BOOLEAN :
         IF ~dbok
         THEN /\ Finish(r, writeJSONError(500, "server_error"), {"lookup", "dbfault"})
              /\ UNCHANGED first
         ELSE LET found == {a \in aliases : a.fullAcct = req[r].body.acct}
              IN  IF found = {}
                  THEN LET resp == handleCatchAll(req[r].body, cfg.catchAll)
                       IN  /\ Finish(r, resp, {"lookup"} \cup
                                     (IF resp.status = 200 THEN {"sign"} ELSE {}))
                           /\ UNCHANGED first
                  ELSE \E a \in found :
                       LET res == resolveAlias(a, cfg.wallet)
                       IN  CASE res.out = "ok" ->
                                  /\ req' = [req EXCEPT ![r].pc = "done",
                                      ![r].alias = a,
                                      ![r].late = first[a.id].valid,
                                      ![r].resp = respondAlias(req[r].body, a, res.address),
                                      ![r].did = req[r].did \cup {"lookup", "sign"}]
                                  /\ Remember(a, res.address)
                             [] res.out = "err" ->
                                  /\ req' = [req EXCEPT ![r].pc = "done",
                                      ![r].alias = a,
                                      ![r].late = first[a.id].valid,
                                      ![r].resp = writeJSONError(500, "server_error"),
                                      ![r].did = req[r].did \cup {"lookup"}]
                                  /\ UNCHANGED first
                             [] OTHER ->
                                  /\ req' = [req EXCEPT ![r].pc = "account",
                                      ![r].alias = a,
                                      ![r].late = first[a.id].valid,
                                      ![r].did = req[r].did \cup {"lookup"}]
                                  /\ UNCHANGED first
    /\ UNCHANGED <<inst, aliases, accounts, cfg, ck, sic, bridge, ips, heap, now, log, era, wd, sg, adm>>

\* lines 189-195: GetAccount and the wallet name
GetAccount(r) ==
    /\ req[r].pc = "account"
    /\ \E dbok \in BOOLEAN :
         LET found == {a \in accounts : a.id = req[r].alias.accountID}
         IN  IF ~dbok \/ found = {}
             THEN Finish(r, writeJSONError(500, "server_error"), {"account", "dbfault"})
             ELSE \E a \in found :
                  IF ~a.wallet.valid \/ a.wallet.s = <<>>
                  THEN Finish(r, writeJSONError(500, "server_error"), {"account"})
                  ELSE req' = [req EXCEPT ![r].pc = "open",
                                  ![r].wallet = a.wallet.s,
                                  ![r].did = req[r].did \cup {"account"}]
    /\ UNCHANGED <<inst, aliases, accounts, cfg, ck, sic, bridge, ips, heap, now, log, first, era, wd, sg, adm>>

\* lines 196-198: open_wallet on the bridge
OpenWallet(r) ==
    /\ req[r].pc = "open"
    /\ \E ok \in BOOLEAN :
         IF ~ok
         THEN /\ Finish(r, writeJSONError(500, "server_error"), {"open", "bridgefault"})
              /\ UNCHANGED bridge
         ELSE /\ req' = [req EXCEPT ![r].pc = "getaddr",
                            ![r].did = req[r].did \cup {"open"}]
              /\ bridge' = [bridge EXCEPT !.open = req[r].wallet]
    /\ UNCHANGED <<inst, aliases, accounts, cfg, ck, sic, ips, heap, now, log, first, era, wd, sg, adm>>

\* generations of a wallet file the bridge may be serving
Gens == {0, 1}

\* a variant that stores what the bridge answered before it looks at the
\* error of the call
GetAddressStoresFirst(r) ==
    /\ req[r].pc = "getaddr"
    /\ \E ok \in BOOLEAN, g \in Gens :
         LET address == WalletAddr(bridge.open, req[r].alias.idx.n, g)
         IN  /\ aliases' = { IF a.id = req[r].alias.id
                              THEN [a EXCEPT !.addr = Some(address)]
                              ELSE a : a \in aliases }
             /\ IF ~ok \/ bridge.open = <<>>
                THEN /\ Finish(r, writeJSONError(500, "server_error"), {"getaddr", "bridgefault"})
                     /\ UNCHANGED first
                ELSE /\ Finish(r, respondAlias(req[r].body, req[r].alias, address),
                               {"getaddr", "sign"})
                     /\ Remember(req[r].alias, address)
    /\ UNCHANGED <<inst, accounts, cfg, ck, sic, bridge, ips, heap, now, log, era, wd, sg, adm>>

\* lines 199-203 and 151-165: get_address on the wallet that is open, then
\* the signed answer
GetAddress(r) ==
    /\ req[r].pc = "getaddr"
    /\ \E ok \in BOOLEAN, g \in Gens :
         IF ~ok \/ bridge.open = <<>>
         THEN /\ Finish(r, writeJSONError(500, "server_error"), {"getaddr", "bridgefault"})
              /\ UNCHANGED first
         ELSE LET address == WalletAddr(bridge.open, req[r].alias.idx.n, g)
              IN  /\ Finish(r, respondAlias(req[r].body, req[r].alias, address),
                            {"getaddr", "sign"})
                  /\ Remember(req[r].alias, address)
    /\ UNCHANGED <<inst, aliases, accounts, cfg, ck, sic, bridge, ips, heap, now, log, era, wd, sg, adm>>

\* the response has been sent; the slot serves the next request
Recycle(r) ==
    /\ req[r].pc = "done"
    /\ req' = [req EXCEPT ![r] = IdleReq]
    /\ UNCHANGED <<inst, aliases, accounts, cfg, ck, sic, bridge, ips, heap, now, log, first, era, wd, sg, adm>>

-----------------------------------------------------------------------------
(* identity.Watchdog *)

GoodKey == [kid |-> SigningKeyID, pub |-> SignerPub]
KidOnly == [kid |-> SigningKeyID, pub |-> "pubX"]
PubOnly == [kid |-> <<"k0">>, pub |-> SignerPub]

Answer(kind, homeserver, keys) ==
    [kind |-> kind, homeserver |-> homeserver, keys |-> keys]

\* what the GET of https://<domain>/.well-known/monalias can bring back: a
\* transport error or timeout, a status other than 200, a body that does not
\* decode, or a document
Answers ==
    [kind : {"error", "non200", "garbage"}, homeserver : {""}, keys : {<<>>}]
    \cup
    [kind : {"doc"}, homeserver : {PublicBaseURL},
     keys : {<<>>, <<GoodKey>>, <<KidOnly, PubOnly>>, <<PubOnly, GoodKey>>}]
    \cup
    [kind : {"doc"}, homeserver : {"https://evil"}, keys : {<<GoodKey>>}]

AnswersFew ==
    { Answer("error", "", <<>>),
      Answer("doc", PublicBaseURL, <<GoodKey>>),
      Answer("doc", "https://evil", <<GoodKey>>) }

NoAnswer == Answer("", "", <<>>)

\* a variant that accepts the two values on different entries
keyMatchesSeparately(keys, kid, pubkey) ==
    /\ \E i \in 1..Len(keys) : keys[i].kid = kid
    /\ \E i \in 1..Len(keys) : keys[i].pub = pubkey

keyMatches(keys, kid, pubkey) ==
    \E i \in 1..Len(keys) : keys[i].kid = kid /\ keys[i].pub = pubkey

Verdict(status, reason) == [status |-> status, reason |-> reason]

NoVerdict == Verdict("", Null)

\* a variant that escalates a repeated fetch failure
CheckVerdictEscalating(row, ans) ==
    IF ans.kind # "doc"
    THEN IF inst.status = "DEGRADED"
         THEN Verdict("LOCKED", Some(<<"well_known_unreachable">>))
         ELSE Verdict("DEGRADED", Some(<<"well_known_unreachable">>))
    ELSE IF ans.homeserver # PublicBaseURL
    THEN Verdict("LOCKED", Some(<<"identity_mismatch">>))
    ELSE IF ~keyMatches(ans.keys, row.keyID, row.pubkey)
    THEN Verdict("LOCKED", Some(<<"identity_mismatch">>))
    ELSE Verdict("OK", Null)

\* a variant that passes no status for a fetch that failed
CheckVerdictNoStatus(row, ans) ==
    IF ans.kind = "error"
    THEN Verdict("", Some(<<"well_known_unreachable">>))
    ELSE IF ans.kind \in {"non200", "garbage"}
    THEN Verdict("DEGRADED", Some(<<"well_known_unreachable">>))
    ELSE IF ans.homeserver # PublicBaseURL
    THEN Verdict("LOCKED", Some(<<"identity_mismatch">>))
    ELSE IF ~keyMatches(ans.keys, row.keyID, row.pubkey)
    THEN Verdict("LOCKED", Some(<<"identity_mismatch">>))
    ELSE Verdict("OK", Null)

\* CheckOnce lines 69-92: the status and reason handed to markStatus, for
\* the row read at line 58 and the answer of the fetch
CheckVerdict(row, ans) ==
    IF ans.kind = "error"
    THEN Verdict("DEGRADED", Some(<<"well_known_unreachable">>))
    ELSE IF ans.kind = "non200"
    THEN Verdict("DEGRADED", Some(<<"well_known_unreachable">>))
    ELSE IF ans.kind = "garbage"
    THEN Verdict("DEGRADED", Some(<<"well_known_unreachable">>))
    ELSE IF ans.homeserver # PublicBaseURL
    THEN Verdict("LOCKED", Some(<<"identity_mismatch">>))
    ELSE IF ~keyMatches(ans.keys, row.keyID, row.pubkey)
    THEN Verdict("LOCKED", Some(<<"identity_mismatch">>))
    ELSE Verdict("OK", Null)

NoTime == [valid |-> FALSE, t |-> 0]
Time(t) == [valid |-> TRUE, t |-> t]

\* a variant that leaves the timestamp to a later statement
UpdateInstanceStatusNoTime(row, status, reason, lastCheck) ==
    [row EXCEPT !.status = status, !.reason = reason]

\* db.UpdateInstanceStatus: one UPDATE of the three columns
UpdateInstanceStatus(row, status, reason, lastCheck) ==
    [row EXCEPT !.status = status, !.reason = reason, !.lastCheck = lastCheck]

\* a cycle: its position, the row it read (the keys, and whether the status
\* was LOCKED), the answer it got and the status and reason it hands to
\* markStatus; after its end, how it ended
IdleCk == [pc |-> "idle", row |-> [keyID |-> <<>>, pubkey |-> ""],
           ans |-> NoAnswer, verdict |-> NoVerdict, res |-> "",
           locked |-> FALSE]

\* a variant that ignores the error of the read
CheckReadGoesOn(c) ==
    /\ ck[c].pc = "idle"
    /\ \E dbok \in BOOLEAN :
         IF dbok
         THEN ck' = [ck EXCEPT ![c] = [IdleCk EXCEPT !.pc = "fetch",
                        !.row = [keyID |-> inst.keyID, pubkey |-> inst.pubkey],
                        !.locked = (inst.status = "LOCKED")]]
         ELSE ck' = [ck EXCEPT ![c] = [IdleCk EXCEPT !.pc = "fetch",
                                               !.res = "read_error"]]
    /\ UNCHANGED <<inst, aliases, accounts, cfg, req, sic, bridge, ips, heap, now, log, first, era, wd, sg, adm>>

\* CheckOnce line 58: a cycle starts by reading the row; an unreadable row
\* ends it
CheckRead(c) ==
    /\ ck[c].pc = "idle"
    /\ \E dbok \in BOOLEAN :
         IF dbok
         THEN ck' = [ck EXCEPT ![c] = [IdleCk EXCEPT !.pc = "fetch",
                        !.row = [keyID |-> inst.keyID, pubkey |-> inst.pubkey],
                        !.locked = (inst.status = "LOCKED")]]
         ELSE ck' = [ck EXCEPT ![c] = [IdleCk EXCEPT !.res = "read_error"]]
    /\ UNCHANGED <<inst, aliases, accounts, cfg, req, sic, bridge, ips, heap, now, log, first, era, wd, sg, adm>>

\* CheckOnce lines 63-92: the fetch, with an answer from A, and the branch
\* taken on it
CheckFetch(c, A) ==
    /\ ck[c].pc = "fetch"
    /\ \E ans \in A :
         ck' = [ck EXCEPT ![c].pc = "write", ![c].ans = ans,
                          ![c].verdict = CheckVerdict(ck[c].row, ans)]
    /\ UNCHANGED <<inst, aliases, accounts, cfg, req, sic, bridge, ips, heap, now, log, first, era, wd, sg, adm>>

\* history: a write of LOCKED opens the era, a write of OK closes it
EraAfter(status) ==
    IF status = "LOCKED" THEN TRUE
    ELSE IF status = "OK" THEN FALSE
    ELSE era

\* a variant in which the unlock path writes OK whatever the cycle found
CheckWriteForcedUnlock(c) ==
    /\ ck[c].pc = "write"
    /\ LET v == IF c = "unlock" THEN Verdict("OK", Null) ELSE ck[c].verdict
       IN  /\ inst' = UpdateInstanceStatus(inst, v.status, v.reason, Time(now))
           /\ era' = EraAfter(v.status)
           /\ ck' = [ck EXCEPT ![c].pc = "idle", ![c].res = "written",
                            ![c].locked = FALSE]
    /\ UNCHANGED <<aliases, accounts, cfg, req, sic, bridge, ips, heap, now, log, first, wd, sg, adm>>

\* a variant in which only the unlock path writes over LOCKED
CheckWriteKeepsLock(c) ==
    /\ ck[c].pc = "write"
    /\ IF inst.status = "LOCKED" /\ c # "unlock"
       THEN /\ UNCHANGED <<inst, era>>
            /\ ck' = [ck EXCEPT ![c].pc = "idle", ![c].res = "written",
                             ![c].locked = FALSE]
       ELSE /\ inst' = UpdateInstanceStatus(inst, ck[c].verdict.status,
                           ck[c].verdict.reason, Time(now))
            /\ era' = EraAfter(ck[c].verdict.status)
            /\ ck' = [ck EXCEPT ![c].pc = "idle", ![c].res = "written",
                             ![c].locked = FALSE]
    /\ UNCHANGED <<aliases, accounts, cfg, req, sic, bridge, ips, heap, now, log, first, wd, sg, adm>>

\* markStatus: the single UPDATE that ends the cycle
CheckWrite(c) ==
    /\ ck[c].pc = "write"
    /\ \E dbok \in BOOLEAN :
         IF dbok
         THEN /\ inst' = UpdateInstanceStatus(inst, ck[c].verdict.status,
                             ck[c].verdict.reason, Time(now))
              /\ era' = EraAfter(ck[c].verdict.status)
              /\ ck' = [ck EXCEPT ![c].pc = "idle", ![c].res = "written",
                               ![c].locked = FALSE]
         ELSE /\ UNCHANGED <<inst, era>>
              /\ ck' = [ck EXCEPT ![c].pc = "idle", ![c].res = "write_error",
                               ![c].locked = FALSE]
    /\ UNCHANGED <<aliases, accounts, cfg, req, sic, bridge, ips, heap, now, log, first, wd, sg, adm>>

\* Watchdog.Run lines 32-44.  The goroutine is in the select, inside the
\* call of CheckOnce, or has returned; tick says that ticker.C holds a value
\* (the channel buffers one), done that ctx.Done() is closed.
RunStart == [pc |-> "select", tick |-> FALSE, done |-> FALSE]

\* time.Ticker: the interval has passed; a value that finds the buffer full
\* is dropped; the deferred ticker.Stop() ends it
TickerFire ==
    /\ wd.pc # "returned"
    /\ ~wd.tick
    /\ wd' = [wd EXCEPT !.tick = TRUE]
    /\ UNCHANGED <<inst, aliases, accounts, cfg, req, ck, sic, bridge, ips, heap, now, log, first, era, sg, adm>>

\* main lines 78-79: the signal context is cancelled
Cancel ==
    /\ ~wd.done
    /\ wd' = [wd EXCEPT !.done = TRUE]
    /\ UNCHANGED <<inst, aliases, accounts, cfg, req, ck, sic, bridge, ips, heap, now, log, first, era, sg, adm>>

\* a variant that leaves the loop when the last cycle returned an error
RunDoneOrError ==
    /\ wd.pc = "select"
    /\ wd.done \/ ck["timer"].res \in {"read_error", "write_error"}
    /\ wd' = [wd EXCEPT !.pc = "returned"]
    /\ UNCHANGED <<inst, aliases, accounts, cfg, req, ck, sic, bridge, ips, heap, now, log, first, era, sg, adm>>

\* case <-ctx.Done(): return
RunDone ==
    /\ wd.pc = "select"
    /\ wd.done
    /\ wd' = [wd EXCEPT !.pc = "returned"]
    /\ UNCHANGED <<inst, aliases, accounts, cfg, req, ck, sic, bridge, ips, heap, now, log, first, era, sg, adm>>

\* case <-ticker.C: the value is taken and CheckOnce is called
RunTick ==
    /\ wd.pc = "select"
    /\ wd.tick
    /\ wd' = [wd EXCEPT !.pc = "call", !.tick = FALSE]
    /\ ck' = [ck EXCEPT !["timer"] = IdleCk]
    /\ UNCHANGED <<inst, aliases, accounts, cfg, req, sic, bridge, ips, heap, now, log, first, era, sg, adm>>

\* the steps of the CheckOnce that Run called
RunCheckOnce(A) ==
    /\ wd.pc = "call"
    /\ \/ ck["timer"].res = "" /\ CheckRead("timer")
       \/ CheckFetch("timer", A)
       \/ CheckWrite("timer")

\* _, _ = w.CheckOnce(ctx): both results are dropped and the loop goes on
RunLoop ==
    /\ wd.pc = "call"
    /\ ck["timer"].pc = "idle"
    /\ ck["timer"].res # ""
    /\ wd' = [wd EXCEPT !.pc = "select"]
    /\ UNCHANGED <<inst, aliases, accounts, cfg, req, ck, sic, bridge, ips, heap, now, log, first, era, sg, adm>>

-----------------------------------------------------------------------------
(* admin API: the operations on the instance row *)

\* Resolver.LockInstance, with a reason from R
LockInstance(R) ==
    /\ \E reason \in R :
         inst' = UpdateInstanceStatus(inst, "LOCKED", Some(reason), Time(now))
    /\ era' = TRUE
    /\ UNCHANGED <<aliases, accounts, cfg, req, ck, sic, bridge, ips, heap, now, log, first, wd, sg, adm>>

IdleSic == [pc |-> "idle", status |-> "", reason |-> Null, lastCheck |-> NoTime,
            keyID |-> <<>>, pubkey |-> "", homeserver |-> ""]

\* Resolver.SetInstanceConfig lines 87-98: the read of the current row
SetInstanceConfigRead ==
    /\ sic.pc = "idle"
    /\ \E hs \in {PublicBaseURL, "https://evil"} :
         sic' = [pc |-> "upsert",
                 status |-> IF inst.status = "" THEN "OK" ELSE inst.status,
                 reason |-> inst.reason, lastCheck |-> inst.lastCheck,
                 keyID |-> IF inst.keyID = <<>> THEN SigningKeyID ELSE inst.keyID,
                 pubkey |-> inst.pubkey, homeserver |-> hs]
    /\ UNCHANGED <<inst, aliases, accounts, cfg, req, ck, bridge, ips, heap, now, log, first, era, wd, sg, adm>>

\* a variant whose upsert leaves the reason column out
SetInstanceConfigUpsertNoReason ==
    /\ sic.pc = "upsert"
    /\ inst' = [homeserver |-> sic.homeserver, keyID |-> sic.keyID,
                pubkey |-> sic.pubkey, status |-> sic.status,
                reason |-> inst.reason, lastCheck |-> sic.lastCheck]
    /\ sic' = IdleSic
    /\ era' = EraAfter(sic.status)
    /\ UNCHANGED <<aliases, accounts, cfg, req, ck, bridge, ips, heap, now, log, first, wd, sg, adm>>

\* Resolver.SetInstanceConfig line 99: the upsert of all columns
SetInstanceConfigUpsert ==
    /\ sic.pc = "upsert"
    /\ inst' = [homeserver |-> sic.homeserver, keyID |-> sic.keyID,
                pubkey |-> sic.pubkey, status |-> sic.status,
                reason |-> sic.reason, lastCheck |-> sic.lastCheck]
    /\ sic' = IdleSic
    /\ era' = EraAfter(sic.status)
    /\ UNCHANGED <<aliases, accounts, cfg, req, ck, bridge, ips, heap, now, log, first, wd, sg, adm>>

-----------------------------------------------------------------------------
(* IPRateLimiter: one golang.org/x/time/rate limiter per client address *)

RateRPS == 1                        \* MONALIAS_RATE_IP_RPS, tokens per second
RateBurst == 10                     \* MONALIAS_RATE_IP_BURST

\* the clock advances in ticks; tokens are counted in units of
\* 1/TicksPerSecond of a token, so that one tick refills RateRPS units
TicksPerSecond == 2
MaxTime == 4
MaxAttempts == 13

Min(a, b) == IF a < b THEN a ELSE b

\* rate.NewLimiter(rps, burst): no tokens and a last-update time of zero,
\* which lies further back than any refill needs
NewLimiter == [tokens |-> 0, last |-> 0, fresh |-> TRUE]

\* a variant that refills a whole token per tick
advancePerTick(lim, t) ==
    IF lim.fresh THEN RateBurst * TicksPerSecond
    ELSE Min(RateBurst * TicksPerSecond,
             lim.tokens + (t - lim.last) * RateRPS * TicksPerSecond)

\* a variant without the cap at the burst
advanceUncapped(lim, t) ==
    IF lim.fresh THEN RateBurst * TicksPerSecond
    ELSE lim.tokens + (t - lim.last) * RateRPS

\* Limiter.advance: the tokens at time t, capped at the burst
advance(lim, t) ==
    IF lim.fresh THEN RateBurst * TicksPerSecond
    ELSE Min(RateBurst * TicksPerSecond, lim.tokens + (t - lim.last) * RateRPS)

\* a variant that charges two tokens for an attempt
reserveNTwo(lim, t) ==
    LET tokens == advance(lim, t) - 2 * TicksPerSecond
    IN  IF tokens >= 0
        THEN [ok |-> TRUE,
              lim |-> [tokens |-> tokens, last |-> t, fresh |-> FALSE]]
        ELSE [ok |-> FALSE, lim |-> lim]

\* Limiter.Allow at time t: take one token if a whole one is there; a
\* refused attempt leaves the limiter as it was
reserveN(lim, t) ==
    LET tokens == advance(lim, t) - TicksPerSecond
    IN  IF tokens >= 0
        THEN [ok |-> TRUE,
              lim |-> [tokens |-> tokens, last |-> t, fresh |-> FALSE]]
        ELSE [ok |-> FALSE, lim |-> lim]

\* the limiters that an entry of the map or a request in the middleware
\* still points to; the others are garbage
Referenced(m, rq) ==
    {m[ip].lim : ip \in DOMAIN m} \cup
    {rq[r].lim : r \in {x \in DOMAIN rq : rq[x].pc = "allow"}}

Collect(h, m, rq) == [id \in DOMAIN h \cap Referenced(m, rq) |-> h[id]]

FreshId(h) == CHOOSE id \in 1..(Cardinality(DOMAIN h) + 1) : id \notin DOMAIN h

\* a variant that does not look for the entry
getLimiterAlwaysNew(m, h, ip, t) ==
    LET id == FreshId(h)
    IN  [ips |-> (ip :> [lim |-> id, lastSeen |-> t]) @@ m,
         heap |-> (id :> NewLimiter) @@ h,
         lim |-> id]

\* getLimiter under l.mu: the limiter of ip, created on first use; lastSeen
\* is refreshed
getLimiter(m, h, ip, t) ==
    IF ip \in DOMAIN m
    THEN [ips |-> [m EXCEPT ![ip].lastSeen = t], heap |-> h, lim |-> m[ip].lim]
    ELSE LET id == FreshId(h)
         IN  [ips |-> (ip :> [lim |-> id, lastSeen |-> t]) @@ m,
              heap |-> (id :> NewLimiter) @@ h,
              lim |-> id]

ClientIPs == {"ip1"}

\* IPRateLimiter.Allow(ip); the attempt and its outcome are appended to the
\* history
Allow(ip) ==
    /\ Len(log) < MaxAttempts
    /\ LET got == getLimiter(ips, heap, ip, now)
           res == reserveN(got.heap[got.lim], now)
       IN  /\ ips' = got.ips
           /\ heap' = [got.heap EXCEPT ![got.lim] = res.lim]
           /\ log' = Append(log, [ip |-> ip, t |-> now, ok |-> res.ok])
    /\ UNCHANGED <<inst, aliases, accounts, cfg, req, ck, sic, bridge, now, first, era, wd, sg, adm>>

\* time passes
Tick ==
    /\ now < MaxTime
    /\ now' = now + 1
    /\ UNCHANGED <<inst, aliases, accounts, cfg, req, ck, sic, bridge, ips, heap, log, first, era, wd, sg, adm>>

RetryAfter == 30                    \* seconds, header and body of the 429
IdleWindow == 600                   \* seconds without access before eviction

\* Middleware lines 72-76: the answer to a request that found no token
tooManyRequests ==
    [NoResp EXCEPT !.status = 429, !.error = "rate_limited",
                   !.retry = SomeInt(RetryAfter),
                   !.retryHdr = Some(<<"30">>)]

\* a request from a client address reaches the public listener, where the
\* middleware wraps the resolve handler
Receive(r, B) ==
    /\ req[r].pc = "idle"
    /\ \E ip \in ClientIPs, m \in {"POST", "GET"}, b \in B :
          /\ m = "GET" => b = Malformed
          /\ req' = [req EXCEPT ![r] = [IdleReq EXCEPT !.pc = "mw", !.ip = ip,
                                           !.method = m, !.body = b]]
    /\ UNCHANGED <<inst, aliases, accounts, cfg, ck, sic, bridge, ips, heap, now, log, first, era, wd, sg, adm>>

\* Middleware lines 69-70: clientIP and getLimiter; n bounds the attempts
MwGetLimiter(r, n) ==
    /\ req[r].pc = "mw"
    /\ Len(log) + Cardinality({x \in DOMAIN req : req[x].pc = "allow"}) < n
    /\ LET got == getLimiter(ips, heap, req[r].ip, now)
       IN  /\ ips' = got.ips
           /\ heap' = got.heap
           /\ req' = [req EXCEPT ![r].pc = "allow", ![r].lim = got.lim]
    /\ UNCHANGED <<inst, aliases, accounts, cfg, ck, sic, bridge, now, log, first, era, wd, sg, adm>>

\* a variant that forgets to return after the 429
MwAllowFallThrough(r) ==
    /\ req[r].pc = "allow"
    /\ LET res == reserveN(heap[req[r].lim], now)
           rq == [req EXCEPT ![r].pc = "handler"]
       IN  /\ req' = rq
           /\ heap' = Collect([heap EXCEPT ![req[r].lim] = res.lim], ips, rq)
           /\ log' = Append(log, [ip |-> req[r].ip, t |-> now, ok |-> res.ok])
    /\ UNCHANGED <<inst, aliases, accounts, cfg, ck, sic, bridge, ips, now, first, era, wd, sg, adm>>

\* Middleware lines 71-78: limiter.Allow on the limiter obtained, then the
\* 429 or next.ServeHTTP
MwAllow(r) ==
    /\ req[r].pc = "allow"
    /\ LET res == reserveN(heap[req[r].lim], now)
           rq == IF res.ok
                 THEN [req EXCEPT ![r].pc = "handler"]
                 ELSE [req EXCEPT ![r].pc = "done", ![r].resp = tooManyRequests]
       IN  /\ req' = rq
           /\ heap' = Collect([heap EXCEPT ![req[r].lim] = res.lim], ips, rq)
           /\ log' = Append(log, [ip |-> req[r].ip, t |-> now, ok |-> res.ok])
    /\ UNCHANGED <<inst, aliases, accounts, cfg, ck, sic, bridge, ips, now, first, era, wd, sg, adm>>

\* a variant that evicts at the idle window, not after it
cleanupAtWindow(m, t) ==
    [ip \in {i \in DOMAIN m : t - m[i].lastSeen < IdleWindow * TicksPerSecond}
        |-> m[ip]]

\* cleanup lines 56-65 under l.mu: the entries that stay at time t
cleanup(m, t) ==
    [ip \in {i \in DOMAIN m : ~(t - m[i].lastSeen > IdleWindow * TicksPerSecond)}
        |-> m[ip]]

\* cleanupLoop: one sweep
Sweep ==
    /\ ips' = cleanup(ips, now)
    /\ heap' = Collect(heap, ips', req)
    /\ UNCHANGED <<inst, aliases, accounts, cfg, req, ck, sic, bridge, now, log, first, era, wd, sg, adm>>

\* a long time passes: the idle window
Sleep ==
    /\ now < IdleWindow * TicksPerSecond
    /\ now' = now + IdleWindow * TicksPerSecond
    /\ UNCHANGED <<inst, aliases, accounts, cfg, req, ck, sic, bridge, ips, heap, log, first, era, wd, sg, adm>>

-----------------------------------------------------------------------------
(* startup: main() on a database that earlier runs have filled *)

\* ensureInstanceConfig on a row that no check has touched yet
InitInst ==
    [homeserver |-> PublicBaseURL, keyID |-> SigningKeyID, pubkey |-> SignerPub,
     status |-> "OK", reason |-> Null, lastCheck |-> NoTime]

Wallet1 == <<"w1">>

Account1 == [id |-> 1, handle |-> AcctA, wallet |-> Some(Wallet1)]

AliasRow(id, full, label, mode, addr, idx) ==
    [id |-> id, accountID |-> 1, fullAcct |-> full, label |-> label,
     mode |-> mode, addr |-> addr, idx |-> idx]

\* a$ex as CreateAlias(STATIC_ADDRESS) leaves it, and after
\* SetAliasStaticAddress
StaticBare == AliasRow(1, AcctA, <<"default">>, "STATIC_ADDRESS", Null, NullInt)
StaticGood == [StaticBare EXCEPT !.addr = Some(<<"4Stat">>)]

\* a+r$ex as CreateAlias(DYNAMIC_SUBADDRESS) leaves it; as SetAliasNextIndex
\* and SetAliasMode leave a row created static; the same after
\* SetAliasStaticAddress(""); and as a SetAliasMode that failed at the bridge
\* leaves it
DynCached == AliasRow(2, AcctAR, <<"r">>, "DYNAMIC_SUBADDRESS",
                      Some(WalletAddr(Wallet1, 1, 0)), SomeInt(1))
DynIndexed == [DynCached EXCEPT !.addr = Null]
DynEmptied == [DynCached EXCEPT !.addr = Some(<<>>)]
DynBare == [DynCached EXCEPT !.addr = Null, !.idx = NullInt]

\* a+$$ex: CreateAlias with the label "$", then SetAliasStaticAddress
StaticTwo == [StaticGood EXCEPT !.id = 3, !.fullAcct = AcctTwo,
                                !.label = <<"$">>, !.addr = Some(<<"4Two">>)]

World(rows, acct, catchAll, wallet) ==
    [aliases |-> rows, accounts |-> {acct},
     cfg |-> [catchAll |-> catchAll, wallet |-> wallet]]

Worlds ==
    { World(s \cup d, Account1, c, w) :
        s \in {{}, {StaticBare}, {StaticGood}},
        d \in {{}, {DynCached}, {DynIndexed}, {DynEmptied}, {DynBare}},
        c \in {<<>>, CatchAllAddr},
        w \in {TRUE} }
    \cup
    { World({StaticGood} \cup d, a, CatchAllAddr, w) :
        d \in {{DynIndexed}},
        a \in {[Account1 EXCEPT !.wallet = Null]},
        w \in BOOLEAN }
    \cup
    { World({DynIndexed}, Account1, <<>>, FALSE) }
    \cup
    { World({StaticGood, StaticTwo}, Account1, c, FALSE) : c \in {<<>>, CatchAllAddr} }

AliasIds == {1, 2, 3}

-----------------------------------------------------------------------------
(* admin API: the mutations on aliases *)

\* one mutation in progress: its place, its arguments, the account and the
\* alias row it read, and what the bridge's create_address gave it; as
\* history, the row as a SetAliasMode found it
IdleAdm == [pc |-> "idle", op |-> "", id |-> 0, accountID |-> 0,
            label |-> <<>>, mode |-> "", full |-> <<>>, wallet |-> <<>>,
            addr |-> <<>>, idx |-> 0, err |-> "", was |-> NoAlias]

AdmFail(e) == adm' = [IdleAdm EXCEPT !.err = e]

\* server.go lines 366-377
buildFullAcct(handle, label) ==
    IF label = <<>> \/ label = <<"default">> THEN handle
    ELSE LET parts == Split(handle, "$")
         IN  IF Len(parts) # 2 THEN handle
             ELSE parts[1] \o <<"+">> \o label \o <<"$">> \o parts[2]

\* the checks before the bridge is used (lines 154-159 and 211-216)
walletCheck(account, walletEnabled) ==
    IF ~walletEnabled THEN "wallet rpc is not configured"
    ELSE IF ~account.wallet.valid \/ account.wallet.s = <<>>
    THEN "wallet name is required for dynamic alias"
    ELSE ""

Modes == {"STATIC_ADDRESS", "DYNAMIC_SUBADDRESS"}

\* the row that INSERT ... RETURNING gives
NewAlias(id, accountID, full, label, mode, addr, idx) ==
    [AliasRow(id, full, label, mode, addr, idx) EXCEPT !.accountID = accountID]

\* CreateAlias lines 140-160: the account is read, the full acct is built
\* and, for a dynamic alias, the bridge is checked
CreateAliasStart(L) ==
    /\ adm.pc = "idle"
    /\ \E acc \in 1..2, label \in L, mode \in Modes, dbok \in BOOLEAN :
         LET found == {a \in accounts : a.id = acc}
         IN  IF ~dbok \/ found = {} THEN AdmFail("db")
             ELSE \E a \in found :
                  LET next == [IdleAdm EXCEPT !.op = "create", !.accountID = acc,
                                  !.label = label, !.mode = mode,
                                  !.full = buildFullAcct(a.handle, label)]
                  IN  IF mode = "DYNAMIC_SUBADDRESS"
                      THEN IF walletCheck(a, cfg.wallet) # ""
                           THEN AdmFail(walletCheck(a, cfg.wallet))
                           ELSE adm' = [next EXCEPT !.pc = "open",
                                                    !.wallet = a.wallet.s]
                      ELSE adm' = [next EXCEPT !.pc = "insert"]
    /\ UNCHANGED <<inst, aliases, accounts, cfg, req, ck, sic, bridge, ips, heap, now, log, first, era, wd, sg>>

\* lines 160-162 and 217-219: open_wallet for the account's wallet
AdmOpenWallet ==
    /\ adm.pc = "open"
    /\ \E ok \in BOOLEAN :
         IF ~ok
         THEN /\ AdmFail("bridge")
              /\ UNCHANGED bridge
         ELSE /\ adm' = [adm EXCEPT !.pc = "address"]
              /\ bridge' = [bridge EXCEPT !.open = adm.wallet]
    /\ UNCHANGED <<inst, aliases, accounts, cfg, req, ck, sic, ips, heap, now, log, first, era, wd, sg>>

\* the indexes create_address may hand out
NewIndexes == {1, 2}

\* a variant that goes on to the INSERT when create_address failed
AdmCreateAddressGoesOn ==
    /\ adm.pc = "address"
    /\ \E ok \in BOOLEAN, i \in NewIndexes :
         IF ~ok \/ bridge.open = <<>>
         THEN adm' = [adm EXCEPT
                        !.pc = IF adm.op = "create" THEN "insert" ELSE "setaddr"]
         ELSE adm' = [adm EXCEPT
                        !.pc = IF adm.op = "create" THEN "insert" ELSE "setaddr",
                        !.addr = WalletAddr(bridge.open, i, 0), !.idx = i]
    /\ UNCHANGED <<inst, aliases, accounts, cfg, req, ck, sic, bridge, ips, heap, now, log, first, era, wd, sg>>

\* lines 163-166 and 220-223: create_address on the wallet that is open
AdmCreateAddress ==
    /\ adm.pc = "address"
    /\ \E ok \in BOOLEAN, i \in NewIndexes :
         IF ~ok \/ bridge.open = <<>>
         THEN AdmFail("bridge")
         ELSE adm' = [adm EXCEPT
                        !.pc = IF adm.op = "create" THEN "insert" ELSE "setaddr",
                        !.addr = WalletAddr(bridge.open, i, 0), !.idx = i]
    /\ UNCHANGED <<inst, aliases, accounts, cfg, req, ck, sic, bridge, ips, heap, now, log, first, era, wd, sg>>

\* a variant that stores a dynamic alias without what the bridge returned
CreateAliasInsertBare ==
    /\ adm.pc = "insert"
    /\ aliases' = aliases \cup
           {NewAlias(Cardinality(aliases) + 1, adm.accountID, adm.full,
                     adm.label, adm.mode, Null, NullInt)}
    /\ adm' = IdleAdm
    /\ UNCHANGED <<inst, accounts, cfg, req, ck, sic, bridge, ips, heap, now, log, first, era, wd, sg>>

\* line 171: the INSERT; full_acct is UNIQUE
CreateAliasInsert ==
    /\ adm.pc = "insert"
    /\ \E dbok \in BOOLEAN :
         IF ~dbok \/ (\E a \in aliases : a.fullAcct = adm.full)
         THEN /\ AdmFail("db")
              /\ UNCHANGED aliases
         ELSE /\ aliases' = aliases \cup
                    {NewAlias(Cardinality(aliases) + 1, adm.accountID, adm.full,
                              adm.label, adm.mode,
                              IF adm.mode = "DYNAMIC_SUBADDRESS"
                              THEN Some(adm.addr) ELSE Null,
                              IF adm.mode = "DYNAMIC_SUBADDRESS"
                              THEN SomeInt(adm.idx) ELSE NullInt)}
              /\ adm' = IdleAdm
    /\ UNCHANGED <<inst, accounts, cfg, req, ck, sic, bridge, ips, heap, now, log, first, era, wd, sg>>

\* the row with one column replaced
UpdateAlias(id, col, v) ==
    { IF a.id = id THEN [a EXCEPT ![col] = v] ELSE a : a \in aliases }

\* SetAliasStaticAddress: one UPDATE of static_address, with an address from A
SetAliasStaticAddress(A) ==
    /\ adm.pc = "idle"
    /\ \E a \in aliases, address \in A :
         aliases' = UpdateAlias(a.id, "addr", Some(address))
    /\ adm' = IdleAdm
    /\ UNCHANGED <<inst, accounts, cfg, req, ck, sic, bridge, ips, heap, now, log, first, era, wd, sg>>

\* SetAliasNextIndex: one UPDATE of next_subaddr_idx, with an index from I
SetAliasNextIndex(I) ==
    /\ adm.pc = "idle"
    /\ \E a \in aliases, i \in I :
         aliases' = UpdateAlias(a.id, "idx", SomeInt(i))
    /\ adm' = IdleAdm
    /\ UNCHANGED <<inst, accounts, cfg, req, ck, sic, bridge, ips, heap, now, log, first, era, wd, sg>>

\* SetAliasMode lines 201-204: the UPDATE of mode; a row that becomes
\* dynamic without an index goes on to the bridge
SetAliasModeUpdate ==
    /\ adm.pc = "idle"
    /\ \E a \in aliases, mode \in Modes :
         /\ aliases' = UpdateAlias(a.id, "mode", mode)
         /\ adm' = IF mode = "DYNAMIC_SUBADDRESS" /\ ~a.idx.valid
                   THEN [IdleAdm EXCEPT !.pc = "account", !.op = "mode",
                            !.id = a.id, !.accountID = a.accountID,
                            !.label = a.label, !.mode = mode, !.was = a]
                   ELSE IdleAdm
    /\ UNCHANGED <<inst, accounts, cfg, req, ck, sic, bridge, ips, heap, now, log, first, era, wd, sg>>

\* lines 206-216
SetAliasModeGetAccount ==
    /\ adm.pc = "account"
    /\ \E dbok \in BOOLEAN :
         LET found == {a \in accounts : a.id = adm.accountID}
         IN  IF ~dbok \/ found = {} THEN AdmFail("db")
             ELSE \E a \in found :
                  IF walletCheck(a, cfg.wallet) # ""
                  THEN AdmFail(walletCheck(a, cfg.wallet))
                  ELSE adm' = [adm EXCEPT !.pc = "open", !.wallet = a.wallet.s]
    /\ UNCHANGED <<inst, aliases, accounts, cfg, req, ck, sic, bridge, ips, heap, now, log, first, era, wd, sg>>

\* lines 224-227: the UPDATE of static_address with the new address
SetAliasModeAddress ==
    /\ adm.pc = "setaddr"
    /\ \E dbok \in BOOLEAN :
         IF ~dbok
         THEN /\ AdmFail("db")
              /\ UNCHANGED aliases
         ELSE /\ aliases' = UpdateAlias(adm.id, "addr", Some(adm.addr))
              /\ adm' = [adm EXCEPT !.pc = "setidx"]
    /\ UNCHANGED <<inst, accounts, cfg, req, ck, sic, bridge, ips, heap, now, log, first, era, wd, sg>>

\* lines 228-231: the UPDATE of next_subaddr_idx with the new index
SetAliasModeIndex ==
    /\ adm.pc = "setidx"
    /\ \E dbok \in BOOLEAN :
         IF ~dbok
         THEN /\ AdmFail("db")
              /\ UNCHANGED aliases
         ELSE /\ aliases' = UpdateAlias(adm.id, "idx", SomeInt(adm.idx))
              /\ adm' = IdleAdm
    /\ UNCHANGED <<inst, accounts, cfg, req, ck, sic, bridge, ips, heap, now, log, first, era, wd, sg>>

-----------------------------------------------------------------------------
(* the specifications *)

InitRest ==
    /\ inst = InitInst
    /\ sic = IdleSic
    /\ bridge = [open |-> <<>>]
    /\ ips = <<>>
    /\ heap = <<>>
    /\ now = 0
    /\ log = <<>>
    /\ first = [i \in AliasIds |-> Null]
    /\ era = FALSE
    /\ wd = RunStart
    /\ sg = NoSigned
    /\ adm = IdleAdm

\* the resolve handler with every kind of request and store; the status
\* is moved by one check cycle and by LockInstance
Init ==
    /\ \E w \in Worlds :
         /\ aliases = w.aliases
         /\ accounts = w.accounts
         /\ cfg = w.cfg
    /\ req = [r \in {"r1"} |-> IdleReq]
    /\ ck = [c \in {"timer"} |-> IdleCk]
    /\ InitRest

Next ==
    \/ \E r \in DOMAIN req : Arrive(r, Bodies)
    \/ \E r \in DOMAIN req : HandleResolve(r)
    \/ \E r \in DOMAIN req : Lookup(r)
    \/ \E r \in DOMAIN req : GetAccount(r)
    \/ \E r \in DOMAIN req : OpenWallet(r)
    \/ \E r \in DOMAIN req : GetAddress(r)
    \/ \E r \in DOMAIN req : Recycle(r)
    \/ \E c \in DOMAIN ck : CheckRead(c)
    \/ \E c \in DOMAIN ck : CheckFetch(c, AnswersFew)
    \/ \E c \in DOMAIN ck : CheckWrite(c)
    \/ LockInstance({<<"maint">>})

Spec == Init /\ [][Next]_vars

\* the instance status under concurrent writers: the timer's and a manual
\* cycle, LockInstance and SetInstanceConfig, with one kind of request
StatusBodies == { [ok |-> TRUE, acct |-> AcctA, network |-> <<"mainnet">>] }

\* the timer's cycle meets every kind of answer, the manual one a few
AnswersOf(c) == IF c = "timer" THEN Answers ELSE AnswersFew

InitStatus ==
    /\ aliases = {StaticGood}
    /\ accounts = {Account1}
    /\ cfg = [catchAll |-> <<>>, wallet |-> FALSE]
    /\ req = [r \in {"r1"} |-> IdleReq]
    /\ ck = [c \in {"timer", "manual"} |-> IdleCk]
    /\ InitRest

NextStatus ==
    \/ \E r \in DOMAIN req : Arrive(r, StatusBodies)
    \/ \E r \in DOMAIN req : HandleResolve(r)
    \/ \E r \in DOMAIN req : Lookup(r)
    \/ \E r \in DOMAIN req : Recycle(r)
    \/ \E c \in DOMAIN ck : CheckRead(c)
    \/ \E c \in DOMAIN ck : CheckFetch(c, AnswersOf(c))
    \/ \E c \in DOMAIN ck : CheckWrite(c)
    \/ LockInstance({<<"maint">>, <<>>})
    \/ SetInstanceConfigRead
    \/ SetInstanceConfigUpsert

SpecStatus == InitStatus /\ [][NextStatus]_vars

\* the rate limiter alone: attempts of one client address while time passes
InitRL ==
    /\ aliases = {}
    /\ accounts = {}
    /\ cfg = [catchAll |-> <<>>, wallet |-> FALSE]
    /\ req = <<>>
    /\ ck = <<>>
    /\ InitRest

NextRL ==
    \/ \E ip \in ClientIPs : Allow(ip)
    \/ Tick

SpecRL == InitRL /\ [][NextRL]_vars

\* the check cycle from its three callers: the timer of Watchdog.Run and the
\* admin mutations RunIdentityCheck and UnlockInstance; LockInstance beside
InitCycle ==
    /\ aliases = {}
    /\ accounts = {}
    /\ cfg = [catchAll |-> <<>>, wallet |-> FALSE]
    /\ req = <<>>
    /\ ck = [c \in {"timer", "run", "unlock"} |-> IdleCk]
    /\ InitRest

NextCycle ==
    \/ \E c \in DOMAIN ck : CheckRead(c)
    \/ \E c \in DOMAIN ck : CheckFetch(c, AnswersOf(c))
    \/ \E c \in DOMAIN ck : CheckWrite(c)
    \/ LockInstance({<<"maint">>})

SpecCycle == InitCycle /\ [][NextCycle]_vars

\* the status row with its writers and a reader while the clock runs
InitAtomic ==
    /\ aliases = {}
    /\ accounts = {}
    /\ cfg = [catchAll |-> <<>>, wallet |-> FALSE]
    /\ req = <<>>
    /\ ck = [c \in {"timer", "run"} |-> IdleCk]
    /\ InitRest

NextAtomic ==
    \/ \E c \in DOMAIN ck : CheckRead(c)
    \/ \E c \in DOMAIN ck : CheckFetch(c, AnswersFew)
    \/ \E c \in DOMAIN ck : CheckWrite(c)
    \/ LockInstance({<<"maint">>})
    \/ SetInstanceConfigRead
    \/ SetInstanceConfigUpsert
    \/ Tick

SpecAtomic == InitAtomic /\ [][NextAtomic]_vars

\* the public listener as main() wires it: two requests at a time pass the
\* middleware and then the resolve handler
InitMW ==
    /\ aliases = {StaticGood}
    /\ accounts = {Account1}
    /\ cfg = [catchAll |-> <<>>, wallet |-> FALSE]
    /\ req = [r \in {"r1", "r2"} |-> IdleReq]
    /\ ck = <<>>
    /\ InitRest

NextMW ==
    \/ \E r \in DOMAIN req : Receive(r, StatusBodies)
    \/ \E r \in DOMAIN req : MwGetLimiter(r, MaxAttempts)
    \/ \E r \in DOMAIN req : MwAllow(r)
    \/ \E r \in DOMAIN req : HandleResolve(r)
    \/ \E r \in DOMAIN req : Lookup(r)
    \/ \E r \in DOMAIN req : Recycle(r)

SpecMW == InitMW /\ [][NextMW]_vars

\* the same with the background sweep and the clock
MaxSweepAttempts == 3

NextSweep ==
    \/ \E r \in DOMAIN req : Receive(r, StatusBodies)
    \/ \E r \in DOMAIN req : MwGetLimiter(r, MaxSweepAttempts)
    \/ \E r \in DOMAIN req : MwAllow(r)
    \/ \E r \in DOMAIN req : HandleResolve(r)
    \/ \E r \in DOMAIN req : Lookup(r)
    \/ \E r \in DOMAIN req : Recycle(r)
    \/ Sweep
    \/ Tick
    \/ Sleep

SpecSweep == InitMW /\ [][NextSweep]_vars

\* the goroutine of Watchdog.Run from its start to its return, with an
\* administrator's lock and the clock beside it
InitRun ==
    /\ aliases = {}
    /\ accounts = {}
    /\ cfg = [catchAll |-> <<>>, wallet |-> FALSE]
    /\ req = <<>>
    /\ ck = [c \in {"timer"} |-> IdleCk]
    /\ InitRest

NextRun ==
    \/ TickerFire
    \/ Cancel
    \/ RunDone
    \/ RunTick
    \/ RunCheckOnce(Answers)
    \/ RunLoop
    \/ LockInstance({<<"maint">>})

SpecRun == InitRun /\ [][NextRun]_vars

\* the goroutine keeps running, the HTTP client gives up after its timeout
\* and a select with several ready cases picks each of them sooner or later
LiveRun ==
    /\ SpecRun
    /\ WF_vars(RunCheckOnce(Answers))
    /\ WF_vars(RunLoop)
    /\ WF_vars(RunTick \/ RunDone)
    /\ SF_vars(RunDone)

\* the signature from signer to verifier, for every tuple of a small alphabet
InitSig ==
    /\ aliases = {}
    /\ accounts = {}
    /\ cfg = [catchAll |-> <<>>, wallet |-> FALSE]
    /\ req = <<>>
    /\ ck = <<>>
    /\ inst = InitInst
    /\ sic = IdleSic
    /\ bridge = [open |-> <<>>]
    /\ ips = <<>>
    /\ heap = <<>>
    /\ now = 0
    /\ log = <<>>
    /\ first = [i \in AliasIds |-> Null]
    /\ era = FALSE
    /\ wd = RunStart
    /\ adm = IdleAdm
    /\ \E t \in Tuples : sg = [NoSigned EXCEPT !.pc = "new", !.t = t, !.u = t]

NextSig ==
    \/ SignTuple
    \/ Alter
    \/ VerifyTuple

SpecSig == InitSig /\ [][NextSig]_vars

\* the admin mutations on the aliases of one account, from an empty table
InitAdmin ==
    /\ aliases = {}
    /\ \E w \in {Null, Some(Wallet1)} :
         accounts = {[Account1 EXCEPT !.wallet = w]}
    /\ \E w \in BOOLEAN : cfg = [catchAll |-> <<>>, wallet |-> w]
    /\ req = <<>>
    /\ ck = <<>>
    /\ InitRest

NextAdmin ==
    \/ CreateAliasStart({ <<"default">>, <<"r">> })
    \/ AdmOpenWallet
    \/ AdmCreateAddress
    \/ CreateAliasInsert
    \/ SetAliasStaticAddress({ <<>>, <<"4Stat">> })
    \/ SetAliasNextIndex({ -1, 1 })
    \/ SetAliasModeUpdate
    \/ SetAliasModeGetAccount
    \/ SetAliasModeAddress
    \/ SetAliasModeIndex

SpecAdmin == InitAdmin /\ [][NextAdmin]_vars

\* one client's requests of every kind through middleware and handler while
\* an administrator locks the instance; the clock stands still
InitToken ==
    /\ aliases = {StaticGood}
    /\ accounts = {Account1}
    /\ cfg = [catchAll |-> <<>>, wallet |-> FALSE]
    /\ req = [r \in {"r1"} |-> IdleReq]
    /\ ck = <<>>
    /\ InitRest

NextToken ==
    \/ \E r \in DOMAIN req :
          Receive(r, { Malformed,
                       [ok |-> TRUE, acct |-> AcctA, network |-> <<"mainnet">>],
                       [ok |-> TRUE, acct |-> AcctAR, network |-> <<"mainnet">>] })
    \/ \E r \in DOMAIN req : MwGetLimiter(r, MaxAttempts)
    \/ \E r \in DOMAIN req : MwAllow(r)
    \/ \E r \in DOMAIN req : HandleResolve(r)
    \/ \E r \in DOMAIN req : Lookup(r)
    \/ \E r \in DOMAIN req : Recycle(r)
    \/ LockInstance({<<"maint">>})

SpecToken == InitToken /\ [][NextToken]_vars

\* two accounts with a wallet each on the one bridge: resolutions of their
\* dynamic aliases and the creation of a further one, side by side
Account2 == [id |-> 2, handle |-> <<"b", "$", "ex">>, wallet |-> Some(<<"w2">>)]
DynIndexedB == NewAlias(3, 2, buildFullAcct(Account2.handle, <<"r">>), <<"r">>,
                        "DYNAMIC_SUBADDRESS", Null, SomeInt(1))

InitBridge ==
    /\ aliases = {DynIndexed, DynIndexedB}
    /\ accounts = {Account1, Account2}
    /\ cfg = [catchAll |-> <<>>, wallet |-> TRUE]
    /\ req = [r \in {"r1"} |-> IdleReq]
    /\ ck = <<>>
    /\ InitRest

NextBridge ==
    \/ \E r \in DOMAIN req :
          Arrive(r, { [ok |-> TRUE, acct |-> a.fullAcct, network |-> <<"mainnet">>] :
                        a \in {DynIndexed, DynIndexedB} })
    \/ \E r \in DOMAIN req : HandleResolve(r)
    \/ \E r \in DOMAIN req : Lookup(r)
    \/ \E r \in DOMAIN req : GetAccount(r)
    \/ \E r \in DOMAIN req : OpenWallet(r)
    \/ \E r \in DOMAIN req : GetAddress(r)
    \/ \E r \in DOMAIN req : Recycle(r)
    \/ CreateAliasStart({<<"s">>})
    \/ AdmOpenWallet
    \/ AdmCreateAddress
    \/ CreateAliasInsert

SpecBridge == InitBridge /\ [][NextBridge]_vars

\* the display name: aliases of an account a$ex and of an account $ex, whose
\* handle CreateAccount accepts, with and without a catch-all address
AccountBare == [id |-> 2, handle |-> <<"$", "ex">>, wallet |-> Null]

NameAliases ==
    { NewAlias(1, 1, buildFullAcct(AcctA, <<"r">>), <<"r">>,
               "STATIC_ADDRESS", Some(<<"4Stat">>), NullInt),
      NewAlias(2, 2, buildFullAcct(AccountBare.handle, <<"default">>), <<"default">>,
               "STATIC_ADDRESS", Some(<<"4Bare">>), NullInt),
      NewAlias(3, 2, buildFullAcct(AccountBare.handle, <<"r">>), <<"r">>,
               "STATIC_ADDRESS", Some(<<"4BareR">>), NullInt) }

InitName ==
    /\ aliases = NameAliases
    /\ accounts = {Account1, AccountBare}
    /\ \E c \in {<<>>, CatchAllAddr} : cfg = [catchAll |-> c, wallet |-> FALSE]
    /\ req = [r \in {"r1"} |-> IdleReq]
    /\ ck = <<>>
    /\ InitRest

NextName ==
    \/ \E r \in DOMAIN req :
          Arrive(r, {Malformed} \cup
                    [ok : {TRUE},
                     acct : { a.fullAcct : a \in NameAliases } \cup
                            { AcctA, <<"a", "+", "r", "$", "EX">> },
                     network : { <<"mainnet">>, <<"stagenet">> }])
    \/ \E r \in DOMAIN req : HandleResolve(r)
    \/ \E r \in DOMAIN req : Lookup(r)
    \/ \E r \in DOMAIN req : Recycle(r)
    \/ LockInstance({<<"maint">>})

SpecName == InitName /\ [][NextName]_vars

\* a variant that serves the homeserver of the process configuration
handleWellKnownFromConfig(row, dbok) ==
    IF ~dbok THEN Answer("non200", "", <<>>)
    ELSE Answer("doc", PublicBaseURL, <<[kid |-> row.keyID, pub |-> row.pubkey]>>)

\* public.go lines 58-80: the document the instance serves at
\* /.well-known/monalias, made from the row it reads; 500 when the read fails
handleWellKnown(row, dbok) ==
    IF ~dbok THEN Answer("non200", "", <<>>)
    ELSE Answer("doc", row.homeserver, <<[kid |-> row.keyID, pub |-> row.pubkey]>>)

\* the watchdog's GET reaches this instance's own listener, or fails on the
\* way; an administrator changes the stored homeserver beside the cycles
NextSelf ==
    \/ \E c \in DOMAIN ck : CheckRead(c)
    \/ \E c \in DOMAIN ck :
          CheckFetch(c, { handleWellKnown(inst, ok) : ok \in BOOLEAN } \cup
                        { Answer("error", "", <<>>) })
    \/ \E c \in DOMAIN ck : CheckWrite(c)
    \/ SetInstanceConfigRead
    \/ SetInstanceConfigUpsert

SpecSelf == InitAtomic /\ [][NextSelf]_vars

\* the public listener over every kind of store: a client's requests of
\* every kind pass the middleware and then the resolve handler with its
\* bridge calls, while an administrator locks the instance
NextListener ==
    \/ \E r \in DOMAIN req :
          Receive(r, {Malformed} \cup
                     [ok : {TRUE},
                      acct : {AcctA, AcctAR, <<"a", "$", "zz">>},
                      network : {<<"mainnet">>, <<"testnet">>}])
    \/ \E r \in DOMAIN req : MwGetLimiter(r, MaxAttempts)
    \/ \E r \in DOMAIN req : MwAllow(r)
    \/ \E r \in DOMAIN req : HandleResolve(r)
    \/ \E r \in DOMAIN req : Lookup(r)
    \/ \E r \in DOMAIN req : GetAccount(r)
    \/ \E r \in DOMAIN req : OpenWallet(r)
    \/ \E r \in DOMAIN req : GetAddress(r)
    \/ \E r \in DOMAIN req : Recycle(r)
    \/ LockInstance({<<"maint">>})

SpecListener == Init /\ [][NextListener]_vars

-----------------------------------------------------------------------------
(* the claims *)

Handled(r) == "status" \in req[r].did

LockedAnswer(reason) ==
    [NoResp EXCEPT !.status = 503, !.error = "instance_locked",
                   !.reason = IF reason.valid THEN reason ELSE Null]

\* C1: whenever the status read by a request's lock check is LOCKED, the
\* request is answered 503 instance_locked, with the stored reason when one
\* is stored, and it does no alias lookup, no wallet-bridge call and no
\* signature.
C1_LockedRefused ==
    \A r \in DOMAIN req :
        (Handled(r) /\ req[r].seen.status = "LOCKED") =>
            /\ req[r].pc = "done"
            /\ req[r].resp = LockedAnswer(req[r].seen.reason)
            /\ req[r].did = {"status"}
            /\ ~req[r].resp.sigHdr.valid

C1_Witness ==
    \E r \in DOMAIN req :
        /\ req[r].pc = "done"
        /\ req[r].body.acct = AcctA
        /\ req[r].body.network = <<"mainnet">>
        /\ req[r].seen = [status |-> "LOCKED", reason |-> Some(<<"maint">>)]
        /\ req[r].resp.status = 503
        /\ req[r].resp.reason = Some(<<"maint">>)

\* C2 as stated: a request whose lock check falls between a write of LOCKED
\* and the next write of OK is rejected with instance_locked.
C2_LockedUntilOK ==
    \A r \in DOMAIN req :
        (Handled(r) /\ req[r].era) =>
            /\ req[r].pc = "done"
            /\ req[r].resp.error = "instance_locked"

\* C3 as stated: the input checks and the domain check come before the
\* LOCKED check, so a request that fails one of them gets that error also
\* when the instance is LOCKED.
C3_InputErrorFirst ==
    \A r \in DOMAIN req :
        (req[r].pc = "done" /\ Handled(r)
            /\ validateRequest(req[r].body) # NoResp) =>
                req[r].resp = validateRequest(req[r].body)

Count(s, c) == Cardinality({i \in 1..Len(s) : s[i] = c})

\* the acct has exactly one '$' and what follows it is the configured
\* domain in any case
DomainOK(acct) ==
    /\ Count(acct, "$") = 1
    /\ EqualFold(SubSeq(acct, IndexOf(acct, "$") + 1, Len(acct)), Domain)

\* C4 as stated: a request whose acct is not empty and fails the domain
\* test gets alias_not_found, never bad_request and never an address.
C4_MismatchAlwaysNotFound ==
    \A r \in DOMAIN req :
        (req[r].pc = "done" /\ req[r].method = "POST" /\ req[r].body.ok
            /\ "dbfault" \notin req[r].did
            /\ req[r].body.acct # <<>> /\ ~DomainOK(req[r].body.acct)) =>
                /\ req[r].resp.status = 404
                /\ req[r].resp.error = "alias_not_found"

\* C4, amended: for a POST with a decodable body, a non-empty acct and the
\* network mainnet or stagenet, whose lock check read a status other than
\* LOCKED: when the acct's domain suffix differs from the configured domain
\* in more than case, or the acct does not contain exactly one '$', the
\* answer is 404 alias_not_found without a lookup, whether or not an alias
\* with that acct is stored and whether or not a catch-all is configured.
C4_MismatchNotFound ==
    \A r \in DOMAIN req :
        (req[r].pc \in {"done", "lookup", "account", "open", "getaddr"}
            /\ Handled(r) /\ req[r].seen.status # "LOCKED"
            /\ req[r].body.ok /\ req[r].body.acct # <<>>
            /\ req[r].body.network \in {<<"mainnet">>, <<"stagenet">>}
            /\ ~DomainOK(req[r].body.acct)) =>
                /\ req[r].pc = "done"
                /\ req[r].resp = writeJSONError(404, "alias_not_found")
                /\ req[r].did = {"status"}

C4_Witness ==
    \E r \in DOMAIN req :
        /\ req[r].pc = "done"
        /\ req[r].body.acct = AcctTwo
        /\ \E a \in aliases : a.fullAcct = AcctTwo /\ a.addr = Some(<<"4Two">>)
        /\ cfg.catchAll = CatchAllAddr
        /\ req[r].resp.error = "alias_not_found"

Unreachable == Verdict("DEGRADED", Some(<<"well_known_unreachable">>))
Mismatch == Verdict("LOCKED", Some(<<"identity_mismatch">>))

\* the status the claim assigns to an answer
Determined(ans) ==
    IF ans.kind # "doc" THEN Unreachable
    ELSE IF ans.homeserver # PublicBaseURL THEN Mismatch
    ELSE IF [kid |-> inst.keyID, pub |-> inst.pubkey]
               \notin {ans.keys[i] : i \in 1..Len(ans.keys)}
    THEN Mismatch
    ELSE Verdict("OK", Null)

\* C5: a cycle that completes writes the status the external answer
\* determines: DEGRADED/well_known_unreachable for a fetch error, a non-200
\* answer or an unparsable body; LOCKED/identity_mismatch for a document
\* with another homeserver or without one key entry matching both the key
\* id and the public key; otherwise OK with no reason.
C5_CycleWritesDetermined ==
    [][ \A c \in DOMAIN ck :
          (ck[c].pc = "write" /\ ck'[c].res = "written") =>
              /\ inst'.status = Determined(ck[c].ans).status
              /\ inst'.reason = Determined(ck[c].ans).reason
              /\ inst'.lastCheck.valid
      ]_vars

C5_Witness ==
    \E c \in DOMAIN ck :
        /\ ck[c].pc = "idle" /\ ck[c].res = "written"
        /\ ck[c].ans = Answer("doc", PublicBaseURL, <<KidOnly, PubOnly>>)
        /\ inst.status = "LOCKED"
        /\ inst.reason = Some(<<"identity_mismatch">>)

\* C6: for a stored STATIC_ADDRESS alias with a non-empty address, a request
\* for exactly its full_acct that passed the lock check and the input checks
\* and meets no storage fault is answered 200 with that address, kind
\* NORMAL and the alias's label, and not with the catch-all address.
C6_StaticResolves ==
    [][ \A r \in DOMAIN req : \A a \in aliases :
          (req[r].pc = "lookup" /\ req'[r].pc # "lookup"
              /\ req[r].seen.status # "LOCKED"
              /\ "dbfault" \notin req'[r].did
              /\ a.fullAcct = req[r].body.acct
              /\ a.mode = "STATIC_ADDRESS"
              /\ a.addr.valid /\ a.addr.s # <<>>) =>
                  /\ req'[r].pc = "done"
                  /\ req'[r].resp.status = 200
                  /\ req'[r].resp.address = a.addr.s
                  /\ req'[r].resp.kind = "NORMAL"
                  /\ req'[r].resp.alias = Some(a.label)
                  /\ req'[r].resp.address # cfg.catchAll
      ]_vars

C6_Witness ==
    \E r \in DOMAIN req :
        /\ req[r].pc = "done"
        /\ req[r].body.acct = AcctA
        /\ StaticGood \in aliases
        /\ cfg.catchAll = CatchAllAddr
        /\ req[r].resp.status = 200
        /\ req[r].resp.address = <<"4Stat">>
        /\ req[r].resp.alias = Some(<<"default">>)

\* C7 as stated: a successful resolution of a dynamic alias returns the
\* address of the first successful resolution of that alias.
C7_SameAsFirst ==
    \A r \in DOMAIN req :
        (req[r].pc = "done" /\ req[r].resp.status = 200
            /\ req[r].alias.mode = "DYNAMIC_SUBADDRESS"
            /\ first[req[r].alias.id].valid) =>
                req[r].resp.address = first[req[r].alias.id].s

\* C8 as stated: once a dynamic alias has been resolved, its address is
\* stored on the alias and a later resolution makes no wallet-bridge call.
C8_DerivedStored ==
    /\ \A a \in aliases :
          (a.mode = "DYNAMIC_SUBADDRESS" /\ first[a.id].valid) =>
              a.addr = first[a.id]
    /\ \A r \in DOMAIN req :
          req[r].late => req[r].did \cap {"open", "getaddr"} = {}

\* C9: a request that passed the lock check and the input checks, whose
\* acct no stored alias has, and that meets no storage fault: with a
\* catch-all address configured the answer is a signed 200 with that
\* address, kind CATCH_ALL, no alias label and the display name
\* "<domain> (catch-all)"; with none it is 404 alias_not_found.
C9_CatchAll ==
    [][ \A r \in DOMAIN req :
          (req[r].pc = "lookup" /\ req'[r].pc # "lookup"
              /\ req[r].seen.status # "LOCKED"
              /\ "dbfault" \notin req'[r].did
              /\ ~\E a \in aliases : a.fullAcct = req[r].body.acct) =>
                  /\ req'[r].pc = "done"
                  /\ IF cfg.catchAll # <<>>
                     THEN /\ req'[r].resp.status = 200
                          /\ req'[r].resp.address = cfg.catchAll
                          /\ req'[r].resp.network = req[r].body.network
                          /\ req'[r].resp.kind = "CATCH_ALL"
                          /\ req'[r].resp.alias = Null
                          /\ req'[r].resp.display =
                                Some(Domain \o <<" (catch-all)">>)
                          /\ req'[r].resp.keyHdr = Some(SigningKeyID)
                          /\ req'[r].resp.sigHdr.valid
                          /\ req'[r].resp.sigHdr.key = SignerKey
                     ELSE req'[r].resp = writeJSONError(404, "alias_not_found")
      ]_vars

C9_Witness ==
    \E r \in DOMAIN req :
        /\ req[r].pc = "done"
        /\ req[r].body.acct = <<"a", "$", "EX">>
        /\ req[r].resp.status = 200
        /\ req[r].resp.kind = "CATCH_ALL"
        /\ req[r].resp.address = CatchAllAddr
        /\ req[r].resp.sigHdr.valid

\* the first n attempts fall on one instant
Immediate(n) == Len(log) >= n /\ \A i \in 1..n : log[i].t = log[1].t

\* C10: with burst RateBurst = 10 and RateRPS = 1 token per second, the
\* first 10 attempts of one client at one instant are admitted and the 11th
\* is refused; an attempt one second later, with none in between, is
\* admitted and the one after it at that instant is refused.
C10_BurstThenOne ==
    /\ \A n \in 1..RateBurst : Immediate(n) => log[n].ok
    /\ Immediate(RateBurst + 1) => ~log[RateBurst + 1].ok
    /\ (Immediate(RateBurst + 1) /\ Len(log) >= RateBurst + 2
          /\ log[RateBurst + 2].t = log[1].t + TicksPerSecond) =>
              log[RateBurst + 2].ok
    /\ (Immediate(RateBurst + 1) /\ Len(log) >= RateBurst + 3
          /\ log[RateBurst + 2].t = log[1].t + TicksPerSecond
          /\ log[RateBurst + 3].t = log[RateBurst + 2].t) =>
              ~log[RateBurst + 3].ok

C10_Witness ==
    /\ Immediate(RateBurst + 1)
    /\ Len(log) >= RateBurst + 3
    /\ log[RateBurst + 2].t = log[1].t + TicksPerSecond
    /\ log[RateBurst + 3].t = log[RateBurst + 2].t
    /\ log[RateBurst + 2].ok
    /\ ~log[RateBurst + 3].ok

\* C11: a request passes the limiter before anything else; one that finds
\* no token is answered in that step with 429 rate_limited, the retry hint
\* RetryAfter in body and header, and has read no status, looked up nothing
\* and signed nothing; one that finds a token goes on to the handler.
C11_LimiterFirst ==
    [][ \A r \in DOMAIN req :
          /\ (req[r].pc = "allow" /\ req'[r].pc # "allow") =>
                IF advance(heap[req[r].lim], now) < TicksPerSecond
                THEN /\ req'[r].pc = "done"
                     /\ req'[r].resp = [NoResp EXCEPT !.status = 429,
                                           !.error = "rate_limited",
                                           !.retry = SomeInt(RetryAfter),
                                           !.retryHdr = Some(<<"30">>)]
                     /\ req'[r].did = {}
                     /\ req'[r].seen = NoSeen
                ELSE req'[r].pc = "handler"
          /\ (req'[r].pc = "handler" /\ req[r].pc # "handler") =>
                req[r].pc = "allow"
          /\ req'[r].did # {} => req'[r].resp.status # 429
      ]_vars

C11_Witness ==
    \E r \in DOMAIN req :
        /\ req[r].pc = "done"
        /\ req[r].resp.status = 429
        /\ req[r].resp.retry = SomeInt(30)
        /\ Len(log) > RateBurst

Admitted == {i \in 1..Len(log) : log[i].ok}

\* C12: the map holds one limiter per client address; requests of one
\* address that are between getLimiter and Allow at the same time all hold
\* that one limiter, and with no time passing they are admitted at most
\* RateBurst times together.
C12_OneBucketPerKey ==
    /\ \A r \in DOMAIN req :
          req[r].pc = "allow" =>
              /\ req[r].ip \in DOMAIN ips
              /\ ips[req[r].ip].lim = req[r].lim
    /\ DOMAIN heap = {ips[ip].lim : ip \in DOMAIN ips}
    /\ Cardinality(DOMAIN heap) = Cardinality(DOMAIN ips)
    /\ Cardinality(Admitted) <= RateBurst

C12_Witness ==
    /\ log = <<>>
    /\ \A r \in DOMAIN req : req[r].pc = "allow" /\ req[r].ip = "ip1"
    /\ Cardinality(DOMAIN heap) = 1

\* C13: a sweep removes an entry only when its last access lies more than
\* IdleWindow back; a request between getLimiter and Allow keeps a usable
\* limiter whatever the sweep does, its attempt is decided by that limiter,
\* and the first getLimiter after a removal creates a limiter that admits
\* the attempt.
C13_SweepAndAttempts ==
    [][ /\ \A ip \in DOMAIN ips :
              ip \notin DOMAIN ips' =>
                  now - ips[ip].lastSeen > IdleWindow * TicksPerSecond
        /\ \A r \in DOMAIN req :
              /\ req'[r].pc = "allow" => req'[r].lim \in DOMAIN heap'
              /\ (req[r].pc = "mw" /\ req'[r].pc = "allow"
                     /\ req[r].ip \notin DOMAIN ips) =>
                        /\ heap'[req'[r].lim].fresh
                        /\ ips'[req[r].ip].lim = req'[r].lim
              /\ (req[r].pc = "allow" /\ req'[r].pc # "allow") =>
                    /\ req'[r].pc = "handler" <=>
                          advance(heap[req[r].lim], now) >= TicksPerSecond
                    /\ heap[req[r].lim].fresh => req'[r].pc = "handler"
      ]_vars

C13_Witness ==
    \E r \in DOMAIN req :
        /\ req[r].pc = "allow"
        /\ req[r].ip \notin DOMAIN ips
        /\ req[r].lim \in DOMAIN heap
        /\ now > IdleWindow * TicksPerSecond

\* C14: the lock check decides on the status stored when it runs: when the
\* last committed write left LOCKED the request is rejected with
\* instance_locked, otherwise it is not; a request answered with a signed
\* success made its lock check when the stored status was not LOCKED, also
\* when LOCKED has been committed since.
C14_LatestStatus ==
    [][ \A r \in DOMAIN req :
          /\ (req[r].pc = "handler" /\ "status" \in req'[r].did) =>
                /\ req'[r].seen.status = inst.status
                /\ req'[r].seen.reason = inst.reason
                /\ inst.status = "LOCKED" =>
                      /\ req'[r].pc = "done"
                      /\ req'[r].resp.status = 503
                      /\ req'[r].resp.error = "instance_locked"
                /\ inst.status # "LOCKED" =>
                      req'[r].resp.error # "instance_locked"
          /\ req'[r].resp.status = 200 => req'[r].seen.status # "LOCKED"
      ]_vars

C14_Witness ==
    \E r \in DOMAIN req :
        /\ req[r].pc = "done"
        /\ req[r].resp.status = 200
        /\ req[r].resp.sigHdr.valid
        /\ req[r].seen.status = "OK"
        /\ inst.status = "LOCKED"

Triple(row) == <<row.status, row.reason, row.lastCheck>>

\* C15: the step that ends a cycle changes status, reason and timestamp
\* together to the cycle's result and the current time, or changes none of
\* them when the write fails; no other step of a cycle touches the row, and
\* a reader's single read gets the three values of one write.
C15_OneAtomicWrite ==
    [][ /\ \A c \in DOMAIN ck :
              /\ (ck[c].pc = "write" /\ ck'[c].pc = "idle") =>
                    \/ /\ ck'[c].res = "written"
                       /\ Triple(inst') = <<ck[c].verdict.status,
                                            ck[c].verdict.reason, Time(now)>>
                    \/ /\ ck'[c].res = "write_error"
                       /\ inst' = inst
              /\ (ck'[c] # ck[c] /\ ck[c].pc # "write") => inst' = inst
        /\ (sic.pc = "idle" /\ sic'.pc = "upsert") =>
              <<sic'.status, sic'.reason, sic'.lastCheck>> = Triple(inst)
      ]_vars

C15_Witness ==
    /\ sic.pc = "upsert"
    /\ Triple(inst) = <<"DEGRADED", Some(<<"well_known_unreachable">>), Time(2)>>
    /\ <<sic.status, sic.reason, sic.lastCheck>> = Triple(inst)
    /\ ck["timer"].res = "written"
    /\ ck["run"].res = "written"

\* C16 as stated: status, reason and timestamp change only in the step that
\* ends a check cycle or in a LockInstance; the upsert of SetInstanceConfig
\* leaves them as they are.
C16_OnlyCycleOrLock ==
    [][ Triple(inst') # Triple(inst) =>
          \/ \E c \in DOMAIN ck : ck[c].pc = "write" /\ ck'[c].res = "written"
          \/ /\ sic' = sic
             /\ ck' = ck
             /\ req' = req
             /\ inst'.status = "LOCKED"
      ]_vars

\* C17: the cycle of the timer, of RunIdentityCheck and of UnlockInstance
\* each writes the status and reason that the answer determines, and an
\* UnlockInstance that meets a mismatching document on a LOCKED instance
\* leaves it LOCKED.
C17_SameAlgorithm ==
    [][ \A c \in {"timer", "run", "unlock"} :
          (ck[c].pc = "write" /\ ck'[c].res = "written") =>
              /\ <<inst'.status, inst'.reason>> =
                    <<Determined(ck[c].ans).status, Determined(ck[c].ans).reason>>
              /\ (c = "unlock" /\ ck[c].locked /\ inst.status = "LOCKED"
                    /\ ck[c].ans.kind = "doc"
                    /\ ck[c].ans.homeserver # PublicBaseURL) =>
                        inst'.status = "LOCKED"
      ]_vars

C17_Witness ==
    /\ ck["unlock"].res = "written"
    /\ ck["unlock"].ans = Answer("doc", "https://evil", <<GoodKey>>)
    /\ ck["unlock"].pc = "idle"
    /\ ck["run"].res = "written"
    /\ ck["run"].ans = ck["unlock"].ans
    /\ inst.status = "LOCKED"

GoodDoc(ans) ==
    /\ ans.kind = "doc"
    /\ ans.homeserver = PublicBaseURL
    /\ \E i \in 1..Len(ans.keys) : ans.keys[i] = GoodKey

\* C18 as stated: the write that ends an UnlockInstance which found the
\* instance LOCKED leaves a status other than LOCKED only when the call
\* fetched a document with the matching homeserver and a matching key.
C18_UnlockNeedsGoodDoc ==
    [][ (ck["unlock"].pc = "write" /\ ck'["unlock"].res = "written"
            /\ ck["unlock"].locked
            /\ inst.status = "LOCKED" /\ inst'.status # "LOCKED") =>
                GoodDoc(ck["unlock"].ans)
      ]_vars

\* C19: when a cycle has written its result and the row is still as it left
\* it, another cycle that read the same identity and got the same answer
\* leaves status and reason as they are.
C19_Idempotent ==
    [][ \A c1, c2 \in DOMAIN ck :
          (c1 # c2
             /\ ck[c1].pc = "idle" /\ ck[c1].res = "written"
             /\ inst.status = ck[c1].verdict.status
             /\ inst.reason = ck[c1].verdict.reason
             /\ ck[c2].pc = "write" /\ ck'[c2].res = "written"
             /\ ck[c2].ans = ck[c1].ans
             /\ ck[c2].row = ck[c1].row) =>
                 /\ inst'.status = inst.status
                 /\ inst'.reason = inst.reason
      ]_vars

C19_Witness ==
    /\ ck["timer"].res = "written" /\ ck["run"].res = "written"
    /\ ck["timer"].pc = "idle" /\ ck["run"].pc = "idle"
    /\ ck["timer"].ans = Answer("error", "", <<>>)
    /\ ck["run"].ans = ck["timer"].ans
    /\ inst.status = "DEGRADED"
    /\ ck["unlock"] = IdleCk

\* C20: a cycle whose read of the row fails ends there: the step changes
\* nothing in the row, and the cycle is over with no answer fetched and no
\* status to write.
C20_ReadErrorAborts ==
    [][ \A c \in DOMAIN ck :
          ck'[c].res = "read_error" =>
              /\ ck'[c].pc = "idle"
              /\ ck'[c].ans = NoAnswer
              /\ ck'[c].verdict = NoVerdict
              /\ (ck[c] # ck'[c] => inst' = inst)
      ]_vars

C20_Witness ==
    /\ ck["unlock"].res = "read_error"
    /\ ck["unlock"].pc = "idle"
    /\ inst.status = "LOCKED"
    /\ inst.reason = Some(<<"maint">>)

\* C21: the loop of Watchdog.Run returns only when its context is cancelled;
\* a cycle that ends, however it ends, brings the loop back to its select; a
\* cycle whose fetch or decode failed writes DEGRADED; a cycle whose read or
\* write of the row failed leaves the row alone; a pending tick is followed
\* by a new cycle or by the return; and after cancellation the loop returns.
C21_LoopGoesOn ==
    /\ [][ (wd.pc # "returned" /\ wd'.pc = "returned") => wd.done ]_vars
    /\ [][ (wd.pc = "call" /\ wd'.pc # "call") => wd'.pc = "select" ]_vars
    /\ [][ (ck["timer"].pc = "write" /\ ck'["timer"].res = "written"
              /\ ck["timer"].ans.kind # "doc") =>
                 /\ inst'.status = "DEGRADED"
                 /\ wd'.pc = "call" ]_vars
    /\ [][ (ck["timer"].res = "" /\ ck'["timer"].pc = "idle"
              /\ ck'["timer"].res \in {"read_error", "write_error"}) =>
                 /\ inst' = inst
                 /\ wd'.pc = "call" ]_vars
    /\ (wd.tick /\ wd.pc # "returned") ~> (wd.pc \in {"call", "returned"})
    /\ wd.done ~> (wd.pc = "returned")

\* a new cycle is under way after one that wrote DEGRADED for a failed fetch
C21_Witness ==
    /\ wd.pc = "call"
    /\ ~wd.done
    /\ ck["timer"].pc = "write"
    /\ inst.status = "DEGRADED"
    /\ inst.reason = Some(<<"well_known_unreachable">>)
    /\ inst.lastCheck.valid

\* C22: the stored status is one of OK, DEGRADED and LOCKED in every state,
\* whatever cycles, locks and SetInstanceConfig calls have run and however
\* they interleave.
C22_StatusTotal ==
    inst.status \in {"OK", "DEGRADED", "LOCKED"}

\* a cycle has written DEGRADED on a row that SetInstanceConfig has rewritten
C22_Witness ==
    /\ inst.status = "DEGRADED"
    /\ inst.lastCheck.valid
    /\ inst.homeserver = "https://evil"
    /\ \E c \in DOMAIN ck : ck[c].res = "written"

\* C23: every success response carries the signature of the string made of
\* MONALIAS_RESOLVE, the request's acct, the response's address, the
\* request's network, the expiry (empty when the response has none, and then
\* still a segment) and the configured key id, with a newline between each
\* two; the key-id header holds the key id that ends the signed string.
C23_CanonicalString ==
    \A r \in DOMAIN req :
        (req[r].pc = "done" /\ req[r].resp.status = 200) =>
            LET resp == req[r].resp
                nl   == <<"\n">>
                exp  == IF resp.expires.valid
                        THEN <<"T", <<"00", "01", "02">>[resp.expires.sec + 1], "Z">>
                        ELSE <<>>
            IN  /\ resp.sigHdr.valid
                /\ resp.sigHdr.key = SignerKey
                /\ resp.sigHdr.msg =
                       <<"MONALIAS_RESOLVE">> \o nl \o req[r].body.acct \o nl
                       \o resp.address \o nl \o req[r].body.network \o nl
                       \o exp \o nl \o SigningKeyID
                /\ Len(Split(resp.sigHdr.msg, "\n")) = 6
                /\ resp.keyHdr = Some(Split(resp.sigHdr.msg, "\n")[6])

\* a signed answer without expiry for a stored alias
C23_Witness ==
    \E r \in DOMAIN req :
        /\ req[r].pc = "done"
        /\ req[r].resp.status = 200
        /\ req[r].resp.kind = "NORMAL"
        /\ ~req[r].resp.expires.valid
        /\ Split(req[r].resp.sigHdr.msg, "\n")[5] = <<>>

\* C24: the signature over a tuple's canonical string verifies against the
\* canonical string of the same tuple, and does not verify against that of a
\* tuple that differs from it in one field.
C24_RoundTrip ==
    sg.pc = "verified" => (sg.ok <=> sg.u = sg.t)

\* a verification that failed because the address was changed on the way
C24_Witness ==
    /\ sg.pc = "verified"
    /\ ~sg.ok
    /\ sg.u.address # sg.t.address
    /\ sg.u.acct = <<"a", "\n", "4A">>

\* C25 as stated: a request that is answered with an input error
\* (bad_request, invalid_network) gets a 4xx status, and the handler has
\* made no storage access and no signature for it.
C25_InputErrorTouchesNothing ==
    \A r \in DOMAIN req :
        (req[r].pc = "done"
            /\ req[r].resp.error \in {"bad_request", "invalid_network"}) =>
                /\ req[r].resp.status \in 400..499
                /\ req[r].did = {}
                /\ ~req[r].resp.sigHdr.valid

\* C26 as stated: every static alias in the store has a non-empty address,
\* and every dynamic alias a cached address or a valid index.
C26_AliasesUsable ==
    \A a \in aliases :
        /\ a.mode = "STATIC_ADDRESS" => (a.addr.valid /\ a.addr.s # <<>>)
        /\ a.mode = "DYNAMIC_SUBADDRESS" =>
              \/ a.addr.valid /\ a.addr.s # <<>>
              \/ a.idx.valid /\ a.idx.n >= 0

\* C26, amended: the row that CreateAlias inserts is a dynamic alias with
\* the address and the index the bridge returned, or a static alias without
\* address and index.
C26_CreateStoresWhole ==
    [][ \A a \in aliases' :
          (\A b \in aliases : b.id # a.id) =>
              \/ /\ a.mode = "STATIC_ADDRESS"
                 /\ a.addr = Null
                 /\ a.idx = NullInt
              \/ /\ a.mode = "DYNAMIC_SUBADDRESS"
                 /\ a.addr.valid /\ a.addr.s # <<>>
                 /\ a.idx.valid /\ a.idx.n \in NewIndexes
      ]_vars

\* CreateAlias has stored a static and a dynamic alias
C26_Witness ==
    /\ adm.pc = "idle"
    /\ \E a \in aliases :
         /\ a.mode = "STATIC_ADDRESS" /\ a.addr = Null
    /\ \E a \in aliases :
         /\ a.mode = "DYNAMIC_SUBADDRESS"
         /\ a.addr = Some(WalletAddr(Wallet1, 2, 0))
         /\ a.idx = SomeInt(2)

\* C27: with the clock standing still, the bucket of a client address holds
\* the burst less one token for every request admitted so far, whatever
\* became of those requests afterwards; and a step of the handler, whatever
\* its outcome, leaves every bucket as it was.
C27_TokenSpent ==
    /\ [](\A ip \in DOMAIN ips :
             advance(heap[ips[ip].lim], now) =
                 (RateBurst - Cardinality(Admitted)) * TicksPerSecond)
    /\ [][ (\A r \in DOMAIN req : ~(req[r].pc = "allow" /\ req'[r].pc # "allow"))
              => \A id \in DOMAIN heap :
                    id \in DOMAIN heap' /\ heap'[id].tokens = heap[id].tokens
         ]_vars

\* three requests were admitted, the last was refused for the lock, and
\* three tokens are gone
C27_Witness ==
    /\ Cardinality(Admitted) = 3
    /\ Len(log) = 3
    /\ \E r \in DOMAIN req :
         /\ req[r].pc = "done"
         /\ req[r].resp.error = "instance_locked"
    /\ advance(heap[ips["ip1"].lim], now) = (RateBurst - 3) * TicksPerSecond

NoAddress(a) == ~a.addr.valid \/ a.addr.s = <<>>

\* the alias is stored, but its address cannot be produced in this store or
\* this request met a failure on the way
Unresolvable(r) ==
    LET a == req[r].alias
    IN  \/ a.mode = "STATIC_ADDRESS" /\ NoAddress(a)
        \/ a.mode = "DYNAMIC_SUBADDRESS" /\ NoAddress(a) /\
              \/ ~a.idx.valid
              \/ ~cfg.wallet
              \/ \A acc \in accounts :
                    acc.id = a.accountID =>
                        (~acc.wallet.valid \/ acc.wallet.s = <<>>)
              \/ "dbfault" \in req[r].did
              \/ "bridgefault" \in req[r].did

\* C28: a request for a stored alias whose address cannot be produced is
\* answered 500 server_error without signature headers, and no request for
\* a stored alias is answered from the catch-all address.
C28_StoredAliasFails ==
    \A r \in DOMAIN req :
        req[r].pc = "done" =>
            /\ (req[r].alias # NoAlias /\ Unresolvable(r)) =>
                  /\ req[r].resp = writeJSONError(500, "server_error")
                  /\ req[r].resp.keyHdr = Null
                  /\ req[r].resp.sigHdr = NoSig
            /\ ("lookup" \in req[r].did
                  /\ \E a \in aliases : a.fullAcct = req[r].body.acct) =>
                  /\ req[r].resp.kind # "CATCH_ALL"
                  /\ req[r].resp.status \in {200, 500}
                  /\ req[r].resp.status = 200 => req[r].resp.kind = "NORMAL"

\* a static alias without address is refused although a catch-all address
\* is configured
C28_Witness ==
    \E r \in DOMAIN req :
        /\ req[r].pc = "done"
        /\ req[r].alias = StaticBare
        /\ cfg.catchAll = CatchAllAddr
        /\ req[r].resp.status = 500
        /\ req[r].resp.error = "server_error"

\* C29 as stated: a dynamic alias resolved through the bridge is answered
\* with the address at its index in the wallet of its owning account,
\* whatever else uses the bridge at the same time.
C29_OwnWallet ==
    \A r \in DOMAIN req :
        (req[r].pc = "done" /\ req[r].resp.status = 200
            /\ "getaddr" \in req[r].did) =>
              \E acc \in accounts, g \in Gens :
                  /\ acc.id = req[r].alias.accountID
                  /\ req[r].resp.address =
                         WalletAddr(acc.wallet.s, req[r].alias.idx.n, g)

\* C30: a request that has read the status row is refused with
\* instance_locked exactly when the status it read is LOCKED; one that read
\* OK or DEGRADED goes on, and, its alias being stored with an address and
\* the store answering, ends with a signed 200.
C30_OnlyLockedRefuses ==
    \A r \in DOMAIN req :
        Handled(r) =>
            /\ req[r].seen.status \in {"OK", "DEGRADED", "LOCKED"}
            /\ (req[r].seen.status = "LOCKED") <=>
                  (req[r].pc = "done" /\ req[r].resp.error = "instance_locked")
            /\ (req[r].seen.status \in {"OK", "DEGRADED"} /\ req[r].pc = "done"
                  /\ "dbfault" \notin req[r].did) =>
                      /\ req[r].resp.status = 200
                      /\ req[r].resp.address = <<"4Stat">>
                      /\ req[r].resp.sigHdr.valid

\* a request that read DEGRADED got its signed answer
C30_Witness ==
    \E r \in DOMAIN req :
        /\ req[r].pc = "done"
        /\ req[r].seen.status = "DEGRADED"
        /\ req[r].resp.status = 200
        /\ req[r].resp.sigHdr.valid

\* a step of the resolve handler on request r
ResolveStep(r) ==
    /\ req[r].pc \in {"handler", "lookup", "account", "open", "getaddr"}
    /\ req'[r] # req[r]

\* the one write the handler may make: the address it answers with, stored
\* on a dynamic alias that had none
WriteBack(r) ==
    \E a \in aliases :
      /\ a.mode = "DYNAMIC_SUBADDRESS"
      /\ ~(a.addr.valid /\ a.addr.s # <<>>)
      /\ req'[r].pc = "done" /\ req'[r].resp.status = 200
      /\ aliases' = UpdateAlias(a.id, "addr", Some(req'[r].resp.address))

\* C31: a step of a resolve request leaves the accounts as they are and the
\* aliases too, except that the step which answers 200 for a dynamic alias
\* without a stored address may store that address on it; a request that
\* ends in an error has changed no alias and no account.
C31_ResolveFrame ==
    [][\A r \in DOMAIN req :
         ResolveStep(r) =>
           /\ accounts' = accounts
           /\ aliases' = aliases \/ WriteBack(r)
           /\ (req'[r].pc = "done" /\ req'[r].resp.status # 200)
                => aliases' = aliases]_vars

\* a request has derived an address at the bridge and answered 200
C31_Witness ==
    \E r \in DOMAIN req :
      /\ req[r].pc = "done"
      /\ req[r].resp.status = 200
      /\ "getaddr" \in req[r].did
      /\ req[r].alias \in aliases

\* the rows of the second table whose id the first does not hold
Added(old, new) == { a \in new : \A b \in old : b.id # a.id }

\* C32: a dynamic alias enters the table only at the INSERT of a CreateAlias
\* whose bridge is configured, whose account has a wallet name and whose
\* open_wallet and create_address succeeded, and it holds the subaddress and
\* the index that create_address returned; a CreateAlias that ends in an
\* error stores nothing.
C32_CreateDynamic ==
    [][ /\ \A a \in Added(aliases, aliases') :
             a.mode = "DYNAMIC_SUBADDRESS" =>
               /\ adm.op = "create" /\ adm.pc = "insert"
               /\ cfg.wallet
               /\ \E acc \in accounts :
                    /\ acc.id = a.accountID
                    /\ acc.wallet.valid /\ acc.wallet.s = adm.wallet
                    /\ adm.wallet # <<>>
               /\ adm.idx \in NewIndexes
               /\ adm.addr = WalletAddr(adm.wallet, adm.idx, 0)
               /\ a.addr = Some(adm.addr)
               /\ a.idx = SomeInt(adm.idx)
        /\ ((adm.pc = "idle" \/ adm.op = "create") /\ adm'.err # "")
             => aliases' = aliases
        /\ (adm.pc = "idle" /\ adm'.op = "create" /\ adm'.mode = "DYNAMIC_SUBADDRESS")
             => \E acc \in accounts : walletCheck(acc, cfg.wallet) = ""
      ]_vars

\* a CreateAlias(r, DYNAMIC_SUBADDRESS) has returned the one row of the table
C32_Witness ==
    /\ adm = IdleAdm
    /\ \E a \in aliases :
         /\ aliases = {a}
         /\ a.fullAcct = AcctAR
         /\ a.mode = "DYNAMIC_SUBADDRESS"
         /\ a.addr = Some(WalletAddr(Wallet1, 1, 0))
         /\ a.idx = SomeInt(1)

\* the local part of an acct, and what of it comes before the first "+"
LocalPart(acct) == Split(acct, "$")[1]
BeforePlus(local) ==
    IF IndexOf(local, "+") = 0 THEN local
    ELSE SubSeq(local, 1, IndexOf(local, "+") - 1)

\* the display name of a catch-all answer
DomainName == Some(Domain \o <<" (catch-all)">>)

\* C33 as stated: the display name of an answer from a stored alias is the
\* local part of the acct up to the first "+", and null when the local part
\* is empty; that of a catch-all answer is the string made from the domain.
C33_DisplayName ==
    \A r \in DOMAIN req :
      (req[r].pc = "done" /\ req[r].resp.status = 200) =>
        LET local == LocalPart(req[r].body.acct)
        IN  IF req[r].resp.kind = "NORMAL"
            THEN req[r].resp.display =
                   IF local = <<>> THEN Null ELSE Some(BeforePlus(local))
            ELSE /\ req[r].resp.display = DomainName
                 /\ req[r].resp.display # Some(local)
                 /\ req[r].resp.display # Some(BeforePlus(local))

\* C33, amended: null whenever what comes before the first "+" is empty
C33_DisplayNameOrNull ==
    \A r \in DOMAIN req :
      (req[r].pc = "done" /\ req[r].resp.status = 200) =>
        LET local == LocalPart(req[r].body.acct)
        IN  IF req[r].resp.kind = "NORMAL"
            THEN req[r].resp.display =
                   IF BeforePlus(local) = <<>> THEN Null
                   ELSE Some(BeforePlus(local))
            ELSE /\ req[r].resp.display = DomainName
                 /\ req[r].resp.display # Some(local)
                 /\ req[r].resp.display # Some(BeforePlus(local))

\* the stored alias +r$ex has been resolved
C33_Witness ==
    \E r \in DOMAIN req :
      /\ req[r].pc = "done" /\ req[r].resp.status = 200
      /\ req[r].resp.kind = "NORMAL"
      /\ req[r].body.acct = <<"+", "r", "$", "ex">>
      /\ req[r].resp.display = Null

\* C34: when the row holds an administrator's lock, the write that ends a
\* cycle of the timer or of RunIdentityCheck puts the cycle's own verdict in
\* its place: OK with no reason for a document with the matching homeserver
\* and key, DEGRADED for a document that could not be fetched.
C34_LockOverwritten ==
    [][ \A c \in DOMAIN ck \ {"unlock"} :
          (/\ inst.status = "LOCKED" /\ inst.reason = Some(<<"maint">>)
           /\ ck[c].pc = "write" /\ ck'[c].res = "written") =>
              /\ inst'.status = ck[c].verdict.status
              /\ inst'.reason = ck[c].verdict.reason
              /\ inst'.reason # Some(<<"maint">>)
              /\ GoodDoc(ck[c].ans) =>
                    (inst'.status = "OK" /\ inst'.reason = Null)
              /\ ck[c].ans.kind # "doc" => (inst'.status = "DEGRADED")
      ]_vars

\* RunIdentityCheck has read the locked row and is still fetching; no
\* UnlockInstance has run; the timer's cycle has made the status OK
C34_Witness ==
    /\ ck["unlock"] = IdleCk
    /\ ck["run"].pc = "fetch" /\ ck["run"].locked
    /\ ck["timer"].pc = "idle" /\ ck["timer"].res = "written"
    /\ GoodDoc(ck["timer"].ans)
    /\ inst.status = "OK" /\ inst.reason = Null

\* C35: a cycle whose fetch brings back the document this instance serves
\* gets the homeserver and the key that the store holds at that moment, and
\* the write that ends it sets OK with no reason exactly when that
\* homeserver is the configured public base URL, and LOCKED with
\* identity_mismatch otherwise; the row of a fresh start is served with the
\* configured URL.
C35_SelfServed ==
    /\ inst.homeserver = PublicBaseURL /\ inst.status = "OK"
    /\ [][ \A c \in DOMAIN ck :
             /\ (ck[c].pc = "fetch" /\ ck'[c].pc = "write"
                   /\ ck'[c].ans.kind = "doc") =>
                  /\ ck'[c].ans.homeserver = inst.homeserver
                  /\ ck'[c].ans.keys =
                        <<[kid |-> inst.keyID, pub |-> inst.pubkey]>>
             /\ (ck[c].pc = "write" /\ ck'[c].res = "written"
                   /\ ck[c].ans.kind = "doc") =>
                  /\ (inst'.status = "OK" /\ inst'.reason = Null)
                        <=> (ck[c].ans.homeserver = PublicBaseURL)
                  /\ (inst'.status = "LOCKED"
                        /\ inst'.reason = Some(<<"identity_mismatch">>))
                        <=> (ck[c].ans.homeserver # PublicBaseURL)
       ]_vars

\* SetInstanceConfig has stored another homeserver and the timer's cycle,
\* served with it, has locked the instance
C35_Witness ==
    /\ inst.homeserver = "https://evil"
    /\ sic.pc = "idle"
    /\ ck["timer"].pc = "idle" /\ ck["timer"].res = "written"
    /\ ck["timer"].ans.kind = "doc"
    /\ ck["timer"].ans.homeserver = "https://evil"
    /\ inst.status = "LOCKED"
    /\ inst.reason = Some(<<"identity_mismatch">>)

\* the attempts of the source of attempt i that were admitted among the
\* attempts i..j
AdmittedIn(i, j) ==
    Cardinality({ k \in i..j : log[k].ip = log[i].ip /\ log[k].ok })

\* C36: among the attempts of one source, those admitted between any two of
\* them are at most burst + rate * T, T being the time from the first to the
\* second; and a bucket holds, stored and refilled to the present, no less
\* than 0 and no more than burst tokens.  (Tokens and time are counted in
\* units of 1/TicksPerSecond.)
C36_WindowBound ==
    /\ \A i \in 1..Len(log) : \A j \in i..Len(log) :
         AdmittedIn(i, j) * TicksPerSecond
            <= RateBurst * TicksPerSecond + RateRPS * (log[j].t - log[i].t)
    /\ \A id \in DOMAIN heap :
         /\ heap[id].tokens >= 0
         /\ heap[id].tokens <= RateBurst * TicksPerSecond
         /\ advance(heap[id], now) >= 0
         /\ advance(heap[id], now) <= RateBurst * TicksPerSecond

\* the bound is met: burst + 2 * rate attempts admitted within two seconds,
\* and one refused
C36_Witness ==
    \E i \in 1..Len(log) : \E j \in i..Len(log) :
      /\ log[j].t - log[i].t = 2 * TicksPerSecond
      /\ AdmittedIn(i, j) = RateBurst + 2 * RateRPS
      /\ \E k \in i..j : ~log[k].ok

\* C37: the stored status is OK, DEGRADED or LOCKED; with OK no reason is
\* stored, with DEGRADED the reason well_known_unreachable, and with LOCKED
\* the reason identity_mismatch or the one LockInstance was given.
C37_StatusAndReason ==
    /\ inst.status \in {"OK", "DEGRADED", "LOCKED"}
    /\ inst.status = "OK" => inst.reason = Null
    /\ inst.status = "DEGRADED" =>
          inst.reason = Some(<<"well_known_unreachable">>)
    /\ inst.status = "LOCKED" =>
          /\ inst.reason.valid
          /\ inst.reason.s \in {<<"identity_mismatch">>, <<"maint">>}

\* a cycle has written OK, SetInstanceConfig has stored another homeserver
\* and the row holds an administrator's lock
C37_Witness ==
    /\ inst.status = "LOCKED" /\ inst.reason = Some(<<"maint">>)
    /\ inst.homeserver = "https://evil"
    /\ sic.pc = "idle"
    /\ \E c \in DOMAIN ck :
         /\ ck[c].pc = "idle" /\ ck[c].res = "written"
         /\ ck[c].verdict = Verdict("OK", Null)

\* C38: an answer of the resolve endpoint with status 200 carries the key id
\* header and the signature header, and was made for a POST that the limiter
\* admitted, that found the instance not LOCKED, that passed the input
\* checks and that has an address; every other answer has one of the
\* statuses 400, 404, 405, 429, 500, 503 and neither header, and no
\* signature was made for it.
C38_SignedIffOK ==
    \A r \in DOMAIN req :
      /\ req[r].pc # "done" => req[r].resp = NoResp
      /\ req[r].pc = "done" =>
           IF req[r].resp.status = 200
           THEN /\ req[r].resp.keyHdr = Some(SigningKeyID)
                /\ req[r].resp.sigHdr.valid
                /\ Verify(SignerPub, canonical(req[r].body, req[r].resp),
                          req[r].resp.sigHdr)
                /\ "sign" \in req[r].did
                /\ req[r].method = "POST"
                /\ req[r].lim # 0
                /\ req[r].seen.status \in {"OK", "DEGRADED"}
                /\ validateRequest(req[r].body) = NoResp
                /\ req[r].resp.address # <<>>
           ELSE /\ req[r].resp.status \in {400, 404, 405, 429, 500, 503}
                /\ req[r].resp.keyHdr = Null
                /\ req[r].resp.sigHdr = NoSig
                /\ "sign" \notin req[r].did

\* the twelfth attempt of a client has been refused by the limiter
C38_Witness ==
    \E r \in DOMAIN req :
      /\ req[r].pc = "done"
      /\ req[r].resp.status = 429
      /\ Len(log) = RateBurst + 2
      /\ \E i \in 1..Len(log) : log[i].ok

\* C39 as stated: a SetAliasMode that returns an error leaves the row as it
\* found it, and the last step of one that succeeds leaves the row dynamic
\* with the address and the index that create_address returned.
C39_FailedSwitchChangesNothing ==
    [][ /\ (adm.op = "mode" /\ adm'.pc = "idle" /\ adm'.err # "") =>
              adm.was \in aliases'
        /\ (adm.op = "mode" /\ adm'.pc = "idle" /\ adm'.err = "") =>
              \E a \in aliases' :
                /\ a.id = adm.id
                /\ a.mode = "DYNAMIC_SUBADDRESS"
                /\ a.addr = Some(adm.addr)
                /\ a.idx = SomeInt(adm.idx)
      ]_vars

====
